---------------------------- MODULE Spec2Model ----------------------------
(***************************************************************************)
(* A model of the workflow analysis engine of Gato-X                       *)
(* (gatox/workflow_parser/workflow_parser.py, components/job.py) and of    *)
(* the user check of the enumerator (gatox/enumerate/enumerate.py).        *)
(*                                                                         *)
(* One WorkflowParser instance is modelled.  The parsed document (trigger  *)
(* block, jobs) is drawn once in Init, as the constructor reads it; every  *)
(* public method of the parser is an action that computes the method's     *)
(* return value from the document and the memoised guard state, and stores *)
(* it in `ret'.                                                            *)
(***************************************************************************)
EXTENDS Integers, Sequences, FiniteSets, TLC

VARIABLES
    parsed_on,      \* parsed_yml['on']: the trigger block
    jobs,           \* WorkflowParser.jobs: the Job objects, in declaration order
    wf_env,         \* parsed_yml['env']: the workflow-level env block
    if_condition,   \* Job.if_condition of every job (raw, then annotated)
    evaluated,      \* Job.evaluated of every job
    parser_runs,    \* how often ExpressionParser ran on the guard of every job
    callees,        \* WorkflowParser.callees
    ret,            \* what the last call returned (or raised)
    workflow_wrapper,   \* the Workflow object the constructor is given
    parser,         \* raw_yaml, repo_name, wf_name of the parser, once constructed
    disk,           \* the directories and files output() writes to
    enumerator      \* Enumerator.user_perms and the calls made on its Api

vars == <<parsed_on, jobs, wf_env, if_condition, evaluated, parser_runs, callees, ret,
          workflow_wrapper, parser, disk, enumerator>>

-----------------------------------------------------------------------------
(* Bounds of the model.                                                    *)

MaxTriggers == 2        \* entries of a trigger list / trigger mapping
MaxJobs == 2            \* jobs of a workflow in the gate-backtracking inputs
MaxSteps == 2           \* steps of the analysed job
MaxCallees == 2         \* entries self.callees may grow to

-----------------------------------------------------------------------------
(* Generic helpers.                                                        *)

Range(s) == {s[i] : i \in 1..Len(s)}

\* Sequences over S of length 0..n.
SeqUpTo(S, n) == UNION {[1..k -> S] : k \in 0..n}

\* str.__contains__: needle occurs in hay (both sequences of characters).
IsSubstr(needle, hay) ==
    \E i \in 0..(Len(hay) - Len(needle)) :
        \A k \in 1..Len(needle) : hay[i + k] = needle[k]

-----------------------------------------------------------------------------
(* The trigger block.                                                      *)

\* The risky set the specification gives.
DocumentedRisky ==
    {"pull_request_target", "workflow_run", "issue_comment", "issues",
     "discussion", "discussion_comment", "fork", "watch"}

\* The trigger names the model draws from: the documented risky names, two
\* harmless ones, and the name the adjacent string literals of the source
\* concatenate to.
TriggerNames ==
    DocumentedRisky \cup {"push", "pull_request", "discussionfork"}

\* risky_triggers as the source spells it: 'discussion' 'fork' has no comma, so
\* Python reads one literal, 'discussionfork'.
risky_triggers ==
    <<"pull_request_target", "workflow_run", "issue_comment", "issues",
      "discussion_comment", "discussion" \o "fork", "watch">>

\* The characters of the strings whose length or substrings the code inspects.
Chars(s) ==
    CASE s = "labeled" ->
            <<"l", "a", "b", "e", "l", "e", "d">>
      [] s = "created" ->
            <<"c", "r", "e", "a", "t", "e", "d">>
      [] s = "${{ github.event.pull_request.head.sha }}" ->
            <<"$", "{", "{", " ", "g", "i", "t", "h", "u", "b", ".", "e", "v",
            "e", "n", "t", ".", "p", "u", "l", "l", "_", "r", "e", "q", "u",
            "e", "s", "t", ".", "h", "e", "a", "d", ".", "s", "h", "a", " ",
            "}", "}">>
      [] s = "${{ github.event.pull_request.head.ref }}" ->
            <<"$", "{", "{", " ", "g", "i", "t", "h", "u", "b", ".", "e", "v",
            "e", "n", "t", ".", "p", "u", "l", "l", "_", "r", "e", "q", "u",
            "e", "s", "t", ".", "h", "e", "a", "d", ".", "r", "e", "f", " ",
            "}", "}">>
      [] s = "${{ env.PR_SHA }}" ->
            <<"$", "{", "{", " ", "e", "n", "v", ".", "P", "R", "_", "S", "H",
            "A", " ", "}", "}">>
      [] s = "${{ steps.get_branch_sha.outputs.sha }}" ->
            <<"$", "{", "{", " ", "s", "t", "e", "p", "s", ".", "g", "e", "t",
            "_", "b", "r", "a", "n", "c", "h", "_", "s", "h", "a", ".", "o",
            "u", "t", "p", "u", "t", "s", ".", "s", "h", "a", " ", "}", "}">>
      [] s = "github.event.pull_request.head.sha" ->
            <<"g", "i", "t", "h", "u", "b", ".", "e", "v", "e", "n", "t", ".",
            "p", "u", "l", "l", "_", "r", "e", "q", "u", "e", "s", "t", ".",
            "h", "e", "a", "d", ".", "s", "h", "a">>
      [] s = "sha" ->
            <<"s", "h", "a">>
      [] s = "env." ->
            <<"e", "n", "v", ".">>
      [] s = "${{" ->
            <<"$", "{", "{">>
      [] s = "${{ github.event.pull_request.title }}" ->
            <<"$", "{", "{", " ", "g", "i", "t", "h", "u", "b", ".", "e", "v",
            "e", "n", "t", ".", "p", "u", "l", "l", "_", "r", "e", "q", "u",
            "e", "s", "t", ".", "t", "i", "t", "l", "e", " ", "}", "}">>
      [] s = "production" ->
            <<"p", "r", "o", "d", "u", "c", "t", "i", "o", "n">>
      [] s = "self-hosted" ->
            <<"s", "e", "l", "f", "-", "h", "o", "s", "t", "e", "d">>
      [] s = "ubuntu-latest" ->
            <<"u", "b", "u", "n", "t", "u", "-", "l", "a", "t", "e", "s",
            "t">>
      [] s = "Linux" ->
            <<"L", "i", "n", "u", "x">>
      [] s = "X64" ->
            <<"X", "6", "4">>
      [] s = "ubuntu-22.04-4core-16gb" ->
            <<"u", "b", "u", "n", "t", "u", "-", "2", "2", ".", "0", "4",
            "-", "4", "c", "o", "r", "e", "-", "1", "6", "g", "b">>
      [] s = "self-hosted-builder" ->
            <<"s", "e", "l", "f", "-", "h", "o", "s", "t", "e", "d", "-",
            "b", "u", "i", "l", "d", "e", "r">>
      [] s = "${{ matrix.os }}" ->
            <<"$", "{", "{", " ", "m", "a", "t", "r", "i", "x", ".", "o",
            "s", " ", "}", "}">>
      [] s = "build" ->
            <<"b", "u", "i", "l", "d">>
      [] s = "${{ matrix" ->
            <<"$", "{", "{", " ", "m", "a", "t", "r", "i", "x">>
      [] s = "prod" ->
            <<"p", "r", "o", "d">>
      [] s = "staging" ->
            <<"s", "t", "a", "g", "i", "n", "g">>
      [] s = "name" ->
            <<"n", "a", "m", "e">>
      [] OTHER -> <<>>

\* A `types' value: a YAML list of names, or a YAML scalar.
TypesList(items) == [isList |-> TRUE, items |-> items, text |-> ""]
TypesStr(text) == [isList |-> FALSE, items |-> <<>>, text |-> text]

\* x in types / len(types), for a list and for a str.
PyIn(x, types) ==
    IF types.isList THEN x \in Range(types.items)
    ELSE IsSubstr(Chars(x), Chars(types.text))

PyLen(types) ==
    IF types.isList THEN Len(types.items) ELSE Len(Chars(types.text))

\* The conditions of a mapping entry: None, or a dict with the given keys.
CondNull == [isNone |-> TRUE, keys |-> {}, types |-> TypesList(<<>>)]
CondDict(keys, types) == [isNone |-> FALSE, keys |-> keys, types |-> types]

Conditions ==
    {CondNull,
     CondDict({}, TypesList(<<>>)),
     CondDict({"branches"}, TypesList(<<>>)),
     CondDict({"types"}, TypesList(<<"labeled">>)),
     CondDict({"types"}, TypesList(<<"created">>)),
     CondDict({"types"}, TypesList(<<"labeled", "opened">>)),
     CondDict({"types", "branches"}, TypesList(<<"labeled">>)),
     CondDict({"types"}, TypesStr("labeled"))}

\* bool(trigger_conditions): None and the empty dict are falsy.
Truthy(cond) == ~cond.isNone /\ cond.keys # {}

\* The shapes of parsed_yml['on'].
OnAbsent == [shape |-> "absent", name |-> "", list |-> <<>>, mapping |-> <<>>]
OnScalar(n) == [shape |-> "scalar", name |-> n, list |-> <<>>, mapping |-> <<>>]
OnList(l) == [shape |-> "list", name |-> "", list |-> l, mapping |-> <<>>]
OnMapping(m) == [shape |-> "mapping", name |-> "", list |-> <<>>, mapping |-> m]

MappingEntries == [name : TriggerNames, cond : Conditions]

\* The names a trigger block declares.
Declared(on) ==
    CASE on.shape = "scalar" -> {on.name}
      [] on.shape = "list" -> Range(on.list)
      [] on.shape = "mapping" -> {on.mapping[i].name : i \in 1..Len(on.mapping)}
      [] OTHER -> {}

\* The entry of one mapping item, lines 173-181.
MappingEntry(e, risky) ==
    IF e.name \notin Range(risky) THEN <<>>
    ELSE IF Truthy(e.cond) /\ "types" \in e.cond.keys
         THEN IF PyIn("labeled", e.cond.types) /\ PyLen(e.cond.types) = 1
              THEN <<e.name \o ":" \o e.cond.types.items[1]>>
              ELSE <<e.name>>
         ELSE <<e.name>>

RECURSIVE ListEntries(_, _)
ListEntries(l, risky) ==
    IF l = <<>> THEN <<>>
    ELSE (IF Head(l) \in Range(risky) THEN <<Head(l)>> ELSE <<>>)
            \o ListEntries(Tail(l), risky)

RECURSIVE MappingEntries_(_, _)
MappingEntries_(m, risky) ==
    IF m = <<>> THEN <<>>
    ELSE MappingEntry(Head(m), risky) \o MappingEntries_(Tail(m), risky)

\* WorkflowParser.get_vulnerable_triggers(alternate); alternate = "" is the
\* default False.
get_vulnerable_triggers_of(on, alternate) ==
    LET risky == IF alternate # "" THEN <<alternate>> ELSE risky_triggers
    IN  CASE on.shape = "list" -> ListEntries(on.list, risky)
          [] on.shape = "mapping" -> MappingEntries_(on.mapping, risky)
          [] OTHER -> <<>>

get_vulnerable_triggers(alternate) ==
    get_vulnerable_triggers_of(parsed_on, alternate)

\* WorkflowParser.has_trigger(trigger): no alternate is passed on.
has_trigger(trigger) == trigger \in Range(get_vulnerable_triggers(""))


-----------------------------------------------------------------------------
(* Guards: the raw `if' text of a job or step, and its annotation.         *)

\* The raw conditions the model draws from.  NoGuard is the absent `if'
\* (if_condition = None).
NoGuard == "None"
PassableGuard == "github.event.issue.pull_request && startsWith(github.event.comment.body, '/bench')"
RestrictedGuard == "github.ref == 'refs/heads/main'"
UnparsableGuard == "github.event.comment.body == "
UnmodelledGuard == "hashFiles('go.sum') != ''"
TruncatedGuard == "contains("

GuardTexts ==
    {NoGuard, PassableGuard, RestrictedGuard, UnparsableGuard, UnmodelledGuard}

\* ExpressionParser(raw).get_node() followed by EVALUATOR.evaluate(node): the
\* verdict, or the failure raised.
ParseAndEvaluate(raw) ==
    CASE raw = PassableGuard -> "true"
      [] raw = RestrictedGuard -> "false"
      [] raw = UnparsableGuard -> "ValueError"
      [] raw = UnmodelledGuard -> "NotImplementedError"
      [] raw = TruncatedGuard -> "IndexError"
      [] OTHER -> "SyntaxError"

\* An if_condition value: None, the raw text (tag ""), or the annotated text
\* f"{tag}: {raw}" (with f" - {err}" appended for tag ERROR).
RawCondition(raw) ==
    IF raw = NoGuard THEN [tag |-> "None", raw |-> "", err |-> ""]
    ELSE [tag |-> "", raw |-> raw, err |-> ""]

\* bool(if_condition): None is falsy, every text here is non-empty.
CondTruthy(c) == c.tag # "None"

UncaughtAny(v) == IF v \in {"true", "false"} THEN "" ELSE v

\* The exception the handlers of lines 100-107 let through: none of the
\* kinds they name.
Uncaught(v) ==
    IF v \in {"true", "false", "ValueError", "NotImplementedError", "SyntaxError",
              "IndexError"}
    THEN "" ELSE v

\* The body of the try block of evaluateIf, lines 94-107.
Annotate(raw) ==
    LET v == ParseAndEvaluate(raw)
    IN  CASE v = "true" -> [tag |-> "EVALUATED", raw |-> raw, err |-> ""]
          [] v = "false" -> [tag |-> "RESTRICTED", raw |-> raw, err |-> ""]
          [] OTHER -> [tag |-> "ERROR", raw |-> raw, err |-> v]

\* c.startswith(prefix), for the prefixes the code tests; an unannotated text
\* of the model starts with neither.
StartsWith(c, prefix) == c.tag = prefix

-----------------------------------------------------------------------------
(* Jobs.                                                                   *)

\* A `needs' value: a YAML list of job names or a YAML scalar; Job.needs is
\* [] when the job declares none.
NeedsList(items) == [isList |-> TRUE, items |-> items, name |-> ""]
NeedsStr(name) == [isList |-> FALSE, items |-> <<>>, name |-> name]
NoNeeds == NeedsList(<<>>)

\* bool(job.needs)
NeedsTruthy(n) == IF n.isList THEN n.items # <<>> ELSE TRUE

JobIdx == 1..Len(jobs)

\* Job.has_gate, lines 82-86.
has_gate(j) == \E i \in 1..Len(jobs[j].steps) : jobs[j].steps[i].is_gate

NeedsEvaluationUnmemoised(j) == CondTruthy(if_condition[j])

\* The test of line 93: there is a guard and it is not evaluated yet.
NeedsEvaluation(j) == CondTruthy(if_condition[j]) /\ ~evaluated[j]

\* What Job.evaluateIf() returns in the current state, lines 93-111.
evaluateIf(j) ==
    IF NeedsEvaluation(j)
    THEN Annotate(if_condition[j].raw)
    ELSE if_condition[j]

\* The exception Job.evaluateIf() raises in the current state ("" for none).
evaluateIf_exc(j) ==
    IF NeedsEvaluation(j) THEN Uncaught(ParseAndEvaluate(if_condition[j].raw)) ELSE ""

\* The memoised state after evaluateIf() ran on every job of `touched'.
IfConditionAfter(touched) ==
    [j \in JobIdx |-> IF j \in touched THEN evaluateIf(j) ELSE if_condition[j]]

EvaluatedAfter(touched) ==
    [j \in JobIdx |->
        IF j \in touched /\ CondTruthy(if_condition[j]) THEN TRUE ELSE evaluated[j]]

\* The runs of ExpressionParser (line 95) after evaluateIf() ran on every job
\* of `touched': one more for a job whose guard the call evaluates.
ParserRunsAfter(touched) ==
    [j \in JobIdx |->
        IF j \in touched /\ NeedsEvaluation(j) THEN parser_runs[j] + 1
        ELSE parser_runs[j]]

\* Job.gated(), line 116.
gated(j) ==
    has_gate(j)
        \/ (CondTruthy(evaluateIf(j)) /\ StartsWith(evaluateIf(j), "RESTRICTED"))

\* The jobs gated() calls evaluateIf() on: `or' short-circuits on has_gate.
GatedTouches(j) == IF has_gate(j) THEN {} ELSE {j}

-----------------------------------------------------------------------------
(* The workflow wrapper and the construction of the parser.                *)

\* Texts and names of the workflows the model is constructed on; a name is
\* the sequence of its path segments.
RawText == "name: 'Test WF'"
StaleText == "name: 'Old WF'"
RepoNames == {<<"unit_test">>, <<"octo-org", "repo">>}
FileName == <<"main.yml">>

\* What loading the document gave the wrapper: a text that is no YAML mapping,
\* a mapping without `jobs', a mapping with an empty `jobs:', or one with jobs.
Parses == {"unparseable", "no_jobs", "null_jobs", "jobs"}

\* A Workflow object.  Its validity flag is set for a document that does not
\* parse and for one that lacks a jobs section.
Workflow(repo_name, workflow_contents, workflow_name, parse) ==
    [repo_name |-> repo_name,
     workflow_contents |-> workflow_contents,
     workflow_name |-> workflow_name,
     parse |-> parse,
     invalid |-> parse \in {"unparseable", "no_jobs"}]

isInvalid(w) == w.invalid

\* The attributes of a parser no constructor has completed on.
NoParser == [constructed |-> FALSE, raw_yaml |-> "", repo_name |-> <<>>, wf_name |-> <<>>]

WorkflowParser_init_unchecked(w) ==
    [exc |-> "",
     parser |-> [constructed |-> TRUE,
                 raw_yaml |-> w.workflow_contents,
                 repo_name |-> w.repo_name,
                 wf_name |-> w.workflow_name],
     ran |-> TRUE]

\* WorkflowParser.__init__(workflow_wrapper), lines 58-82: the outcome, the
\* attributes it sets, and whether extract_referenced_actions() ran.
WorkflowParser_init(w) ==
    IF isInvalid(w)
    THEN [exc |-> "ValueError", parser |-> NoParser, ran |-> FALSE]
    ELSE [exc |-> "",
          parser |-> [constructed |-> TRUE,
                      raw_yaml |-> w.workflow_contents,
                      repo_name |-> w.repo_name,
                      wf_name |-> w.workflow_name],
          ran |-> TRUE]

\* The wrapper of the unit tests, and the parser constructed on it.
TestWrapper == Workflow(<<"unit_test">>, RawText, FileName, "jobs")
TestParser == WorkflowParser_init(TestWrapper).parser

\* A disk without directories and files, and no file handle open.  A path is
\* the sequence of its segments; the content of a file is the sequence of the
\* texts written to it.
EmptyFiles == [path \in {} |-> <<>>]
EmptyDisk == [dirs |-> {}, files |-> EmptyFiles, handles |-> 0]

\* The path and its ancestors.
Prefixes(path) == {SubSeq(path, 1, k) : k \in 1..Len(path)}
Parent(path) == SubSeq(path, 1, Len(path) - 1)

\* The faults the environment may inject into a call of output(): none, or
\* an OSError in mkdir, in open, or in write.
Faults == {"none", "mkdir", "open", "write"}

\* Path(target_dir).mkdir(parents=True, exist_ok=True), lines 113-114: the
\* disk after it and whether it raised.  It raises when a file is in the way.
mkdir(d, target_dir, fault) ==
    LET blocked == {q \in Prefixes(target_dir) : q \in DOMAIN d.files}
    IN  IF fault = "mkdir" THEN [raised |-> TRUE, disk |-> d]
        ELSE IF blocked # {}
        THEN [raised |-> TRUE,
              disk |-> [d EXCEPT !.dirs =
                            @ \cup {q \in Prefixes(target_dir) :
                                        \A b \in blocked : Len(q) < Len(b)}]]
        ELSE [raised |-> FALSE,
              disk |-> [d EXCEPT !.dirs = @ \cup Prefixes(target_dir)]]

open_a(d, path, fault) ==
    IF fault = "open" \/ Parent(path) \notin d.dirs \/ path \in d.dirs
    THEN [raised |-> TRUE, disk |-> d]
    ELSE [raised |-> FALSE,
          disk |-> [dirs |-> d.dirs,
                    files |-> [q \in DOMAIN d.files \cup {path} |->
                                    IF q \in DOMAIN d.files THEN d.files[q] ELSE <<>>],
                    handles |-> d.handles + 1]]

\* open(path, 'w'), line 116: creates or truncates the file and takes a
\* handle.  It raises when the parent is no directory or the path is one.
open_w(d, path, fault) ==
    IF fault = "open" \/ Parent(path) \notin d.dirs \/ path \in d.dirs
    THEN [raised |-> TRUE, disk |-> d]
    ELSE [raised |-> FALSE,
          disk |-> [dirs |-> d.dirs,
                    files |-> [q \in DOMAIN d.files \cup {path} |->
                                    IF q = path THEN <<>> ELSE d.files[q]],
                    handles |-> d.handles + 1]]

\* wf_out.write(text), line 118.
write(d, path, text, fault) ==
    IF fault = "write" THEN [raised |-> TRUE, disk |-> d]
    ELSE [raised |-> FALSE,
          disk |-> [d EXCEPT !.files[path] = Append(@, text)]]

close_never(d) == d

\* Leaving the with block, line 116: the handle is closed, raised or not.
close(d) == [d EXCEPT !.handles = @ - 1]

\* WorkflowParser.output(dirpath), lines 112-122, on parser p and disk d: the
\* value returned, the call whose exception line 120 caught ("" for none),
\* the disk afterwards and the write calls completed.
output(p, d, dirpath, fault) ==
    LET target_dir == dirpath \o p.repo_name
        path == target_dir \o p.wf_name
        made == mkdir(d, target_dir, fault)
        opened == open_w(made.disk, path, fault)
        written == write(opened.disk, path, p.raw_yaml, fault)
    IN  IF made.raised
        THEN [bool |-> FALSE, caught |-> "mkdir", disk |-> made.disk, writes |-> <<>>]
        ELSE IF opened.raised
        THEN [bool |-> FALSE, caught |-> "open", disk |-> opened.disk, writes |-> <<>>]
        ELSE IF written.raised
        THEN [bool |-> FALSE, caught |-> "write", disk |-> close(written.disk),
              writes |-> <<>>]
        ELSE [bool |-> TRUE, caught |-> "", disk |-> close(written.disk),
              writes |-> <<p.raw_yaml>>]

\* Reading a file back: the texts written to it, in order.
ReadBack(d, path) == IF path \in DOMAIN d.files THEN d.files[path] ELSE <<"absent">>

-----------------------------------------------------------------------------
(* The enumerator and its user check.                                      *)

MaxApiCalls == 4    \* calls of one kind the model follows on one Api

\* An Enumerator after __init__, lines 51-65: user_perms is None, and no
\* check_user() or check_organizations() call was made on its Api.
NoUser == [present |-> FALSE, user |-> "", scopes |-> {}]
NewEnumerator == [user_perms |-> NoUser, check_user |-> 0, check_organizations |-> 0]

\* What Api.check_user() may answer: None, or a user with the scopes of the
\* token.
User(scopes) == [present |-> TRUE, user |-> "testUser", scopes |-> scopes]
Users ==
    {NoUser, User({}), User({"public_repo"}), User({"repo"}), User({"repo", "workflow"})}

\* What Api.check_organizations() may answer.
OrgLists == {<<>>, <<"octo-org">>, <<"octo-org", "gatox">>}

\* Enumerator.__setup_user_info(), lines 67-86, when check_user() would
\* answer `user': whether it returned True, and the enumerator afterwards.
setup_user_info(e, user) ==
    IF ~e.user_perms.present
    THEN [ok |-> user.present,
          e |-> [e EXCEPT !.user_perms = user, !.check_user = @ + 1]]
    ELSE [ok |-> TRUE, e |-> e]

AnyScope(e) == TRUE

\* 'repo' in self.user_perms['scopes'], lines 97 and 122.
HasRepoScope(e) == "repo" \in e.user_perms.scopes

\* The common part of validate_only() and self_enumeration(), lines 94-102 and
\* 119-125: False, or the organizations check_organizations() answers.
ListOrganizations(s, orgs) ==
    IF ~s.ok \/ ~HasRepoScope(s.e)
    THEN [returns |-> "False", e |-> s.e, queried |-> FALSE, orgs |-> <<>>]
    ELSE [returns |-> "list",
          e |-> [s.e EXCEPT !.check_organizations = @ + 1],
          queried |-> TRUE,
          orgs |-> orgs]

\* Enumerator.validate_only(), lines 88-111.
validate_only(e, user, orgs) ==
    LET r == ListOrganizations(setup_user_info(e, user), orgs)
    IN  [returns |-> r.returns, e |-> r.e, queried |-> r.queried, orgs |-> r.orgs,
         enumerated |-> <<>>]

\* Enumerator.self_enumeration(), lines 113-138: every organization answered
\* is passed to enumerate_organization().
self_enumeration(e, user, orgs) ==
    LET r == ListOrganizations(setup_user_info(e, user), orgs)
    IN  [returns |-> r.returns, e |-> r.e, queried |-> r.queried, orgs |-> r.orgs,
         enumerated |-> r.orgs]

-----------------------------------------------------------------------------
(* Gate backtracking.                                                      *)

\* The interpreter's limit on nested calls: a recursion deeper than this
\* raises RecursionError.
RecursionLimit == 8

BtResult(res, touched) == [res |-> res, touched |-> touched]

JobsNamed(name) == {j \in JobIdx : jobs[j].job_name = name}

\* WorkflowParser.backtrack_gate(needs_name) at call depth `depth', lines
\* 194-203.  res is "True", "False" or "RecursionError"; touched are the jobs
\* whose guard the traversal evaluated.
RECURSIVE backtrack_gate_at(_, _)
RECURSIVE backtrack_any(_, _)

backtrack_any(items, depth) ==
    IF items = <<>> THEN BtResult("False", {})
    ELSE LET r == backtrack_gate_at(NeedsStr(Head(items)), depth + 1)
         IN  IF r.res # "False" THEN r
             ELSE LET rest == backtrack_any(Tail(items), depth)
                  IN  BtResult(rest.res, r.touched \cup rest.touched)

backtrack_gate_at(needs_name, depth) ==
    IF depth > RecursionLimit THEN BtResult("RecursionError", {})
    ELSE IF needs_name.isList THEN backtrack_any(needs_name.items, depth)
    ELSE IF JobsNamed(needs_name.name) = {} THEN BtResult("False", {})
    ELSE LET j == CHOOSE k \in JobsNamed(needs_name.name) : TRUE
         IN  IF gated(j) THEN BtResult("True", GatedTouches(j))
             ELSE IF NeedsTruthy(jobs[j].needs)
                  THEN LET r == backtrack_gate_at(jobs[j].needs, depth + 1)
                       IN  BtResult(r.res, GatedTouches(j) \cup r.touched)
                  ELSE BtResult("False", GatedTouches(j))

\* A traversal that looks at the named jobs only and never follows their
\* `needs': C5 must tell it from backtrack_gate.
backtrack_gate_named_only(needs_name) ==
    LET names == IF needs_name.isList THEN Range(needs_name.items)
                 ELSE {needs_name.name}
        named == {j \in JobIdx : jobs[j].job_name \in names}
    IN  BtResult(IF \E j \in named : gated(j) THEN "True" ELSE "False",
                 UNION {GatedTouches(j) : j \in named})

backtrack_gate(needs_name) == backtrack_gate_at(needs_name, 1)

-----------------------------------------------------------------------------
(* Steps.                                                                  *)

\* str.lower() on the characters of the model's texts.
LowerChar(c) ==
    CASE c = "A" -> "a" [] c = "H" -> "h" [] c = "P" -> "p"
      [] c = "R" -> "r" [] c = "S" -> "s" [] OTHER -> c

Lower(cs) == [i \in 1..Len(cs) |-> LowerChar(cs[i])]

\* The ref metadata of the checkout steps the model draws from.
RefHeadSha == "${{ github.event.pull_request.head.sha }}"
RefHeadRef == "${{ github.event.pull_request.head.ref }}"
RefEnvSha == "${{ env.PR_SHA }}"
RefStepSha == "${{ steps.get_branch_sha.outputs.sha }}"

Refs == {RefHeadSha, RefHeadRef, RefEnvSha, RefStepSha}

\* The test of lines 243-245 on step.metadata, evaluated once per ref.
PinnedRefs ==
    {metadata \in Refs :
        LET low == Lower(Chars(metadata))
        IN  IsSubstr(Chars("github.event.pull_request.head.sha"), low)
                \/ (IsSubstr(Chars("sha"), low) /\ IsSubstr(Chars("env."), low))}

\* A test that knows the pull-request head SHA only, not a SHA taken from an
\* env variable: C9 must tell it from RefIsPinned.
RefIsHeadShaOnly(metadata) == metadata = RefHeadSha

RefIsPinned(metadata) == metadata \in PinnedRefs

\* An env block: absent, or a mapping from names to values.  A value is a
\* YAML string, integer or boolean.
EnvStr(text) == [type |-> "str", text |-> text, truthy |-> text # ""]
EnvInt(nonzero) == [type |-> "int", text |-> "", truthy |-> nonzero]
EnvBool(b) == [type |-> "bool", text |-> "", truthy |-> b]

NoEnv == [present |-> FALSE, names |-> {}, value |-> EnvStr("")]
\* One declared variable is enough for the scopes to differ.
EnvOf(name, value) == [present |-> TRUE, names |-> {name}, value |-> value]

\* A Step object.  Its classification flags, name, ref metadata and filtered
\* tokens are what the Step constructor and filter_tokens(step.getTokens())
\* deliver.  A token is its dot-separated segments.
Step(name, kind, metadata, if_raw, tokens, env) ==
    [name |-> name,
     is_gate |-> kind = "gate",
     is_checkout |-> kind = "checkout",
     is_script |-> kind = "script",
     is_sink |-> kind = "sink",
     metadata |-> metadata,
     if_raw |-> if_raw,
     tokens |-> tokens,
     env |-> env]

\* Step.evaluateIf(): None without an `if', else the annotation.
StepEvaluateIf(step) ==
    IF step.if_raw = NoGuard THEN RawCondition(NoGuard) ELSE Annotate(step.if_raw)

\* A Job object, as Job.__init__ builds it from job_data.
Job(job_name, if_raw, needs, steps, env, uses) ==
    [job_name |-> job_name,
     if_raw |-> if_raw,
     needs |-> needs,
     steps |-> steps,
     env |-> env,
     uses |-> uses]

\* Job.caller / Job.external_caller, lines 68-74; "" is the absent `uses'.
LocalWorkflow == "./.github/workflows/build.yml"
ExternalWorkflow == "octo-org/ci/.github/workflows/release.yml@main"

isCaller(j) == jobs[j].uses = LocalWorkflow
external_caller(j) == jobs[j].uses = ExternalWorkflow

\* uses.split('/')[-1]
LastPathSegment(uses) ==
    CASE uses = LocalWorkflow -> "build.yml"
      [] uses = ExternalWorkflow -> "release.yml@main"
      [] OTHER -> uses

\* What the pass over job j appends to self.callees, lines 226-229.
CalleesOf(j) ==
    IF isCaller(j) THEN <<LastPathSegment(jobs[j].uses)>>
    ELSE IF external_caller(j) THEN <<jobs[j].uses>>
    ELSE <<>>

-----------------------------------------------------------------------------
(* Checkout analysis.                                                      *)

\* The confidence a sink step sets, from the job's guard annotation only.
SinkConfidenceJobGuardOnly(if_check, bump_confidence, step_if) ==
    IF CondTruthy(if_check) /\ StartsWith(if_check, "EVALUATED")
    THEN "HIGH" ELSE "MEDIUM"

\* The confidence a confirmed sink step sets, lines 260-265: HIGH if reachable
\* via the expression parser or with no check at all.
SinkConfidence(if_check, bump_confidence, step_if) ==
    IF (CondTruthy(if_check) /\ StartsWith(if_check, "EVALUATED"))
        \/ (bump_confidence /\ ~CondTruthy(if_check))
        \/ (~CondTruthy(if_check)
            /\ (~CondTruthy(step_if) \/ StartsWith(step_if, "EVALUATED")))
    THEN "HIGH" ELSE "MEDIUM"

\* The scan of the steps of job j from step i on, lines 234-265.  st carries
\* job_content['gated'], job_content['confidence'], bump_confidence,
\* step_details, the exception raised (if any), whether the loop was left by
\* `break', and the jobs whose guard was evaluated on the way.
RECURSIVE ScanCheckouts(_, _, _)
ScanCheckouts(j, i, st) ==
    IF i > Len(jobs[j].steps) \/ st.stop THEN st
    ELSE
    LET step == jobs[j].steps[i]
        if_check == evaluateIf(j)
        step_if == StepEvaluateIf(step)
    IN  IF step.is_gate
        THEN ScanCheckouts(j, i + 1, [st EXCEPT !.gated = TRUE])
        ELSE IF step.is_checkout
        THEN LET has_needs == NeedsTruthy(jobs[j].needs)
                 bt == IF has_needs THEN backtrack_gate(jobs[j].needs)
                       ELSE BtResult("False", {})
                 g == IF has_needs THEN bt.res = "True" ELSE st.gated
                 seen == st.touched \cup bt.touched
             IN  IF bt.res = "RecursionError"
                 THEN [st EXCEPT !.exc = "RecursionError", !.stop = TRUE,
                                 !.touched = seen]
                 ELSE IF g /\ RefIsPinned(step.metadata)
                 THEN [st EXCEPT !.gated = g, !.stop = TRUE, !.touched = seen]
                 ELSE ScanCheckouts(j, i + 1,
                        [st EXCEPT
                            !.gated = g,
                            !.touched = seen,
                            !.bump =
                                IF CondTruthy(step_if) /\ StartsWith(step_if, "EVALUATED")
                                THEN TRUE
                                ELSE IF CondTruthy(step_if) /\ step_if.tag = "RESTRICTED"
                                THEN FALSE
                                ELSE st.bump,
                            !.details = Append(st.details,
                                [ref |-> step.metadata, if_check |-> step_if,
                                 step_name |-> step.name])])
        ELSE IF st.details # <<>> /\ step.is_sink
        THEN ScanCheckouts(j, i + 1,
                [st EXCEPT !.confidence = SinkConfidence(if_check, st.bump, step_if)])
        ELSE ScanCheckouts(j, i + 1, st)

\* The job_content of job j, lines 217-267, with the scan's exception.
JobCheckouts(j) ==
    LET if_check == evaluateIf(j)
        st == ScanCheckouts(j, 1,
                [gated |-> CondTruthy(if_check) /\ StartsWith(if_check, "RESTRICTED"),
                 confidence |-> "UNKNOWN",
                 bump |-> FALSE,
                 details |-> <<>>,
                 exc |-> "",
                 stop |-> FALSE,
                 touched |-> {j}])
    IN  [job_name |-> jobs[j].job_name,
         check_steps |-> st.details,
         if_check |-> if_check,
         confidence |-> st.confidence,
         gated |-> st.gated,
         exc |-> st.exc,
         touched |-> st.touched]

\* WorkflowParser.analyze_checkouts() from job j on, lines 216-270: the
\* job_checkouts built (job names are distinct, so the dict is the sequence
\* of its items), the exception that ended the pass, the guards evaluated and
\* the callees appended.
RECURSIVE AnalyzeFrom(_, _)
AnalyzeFrom(j, acc) ==
    IF j > Len(jobs) THEN acc
    ELSE LET c == JobCheckouts(j)
             next == [acc EXCEPT !.touched = @ \cup c.touched,
                                 !.callees = @ \o CalleesOf(j)]
         IN  IF c.exc # "" THEN [next EXCEPT !.exc = c.exc]
             ELSE AnalyzeFrom(j + 1,
                    [next EXCEPT !.out = Append(@,
                        [job_name |-> c.job_name, check_steps |-> c.check_steps,
                         if_check |-> c.if_check, confidence |-> c.confidence,
                         gated |-> c.gated])])

analyze_checkouts ==
    AnalyzeFrom(1, [out |-> <<>>, exc |-> "", touched |-> {}, callees |-> <<>>])

-----------------------------------------------------------------------------
(* Pwn-request check.                                                      *)

EmptyStr == [tag |-> "", raw |-> "", err |-> ""]

\* The candidates of lines 290-302, from the items of checkout_info.
RECURSIVE Candidates(_)
Candidates(info) ==
    IF info = <<>> THEN <<>>
    ELSE LET c == Head(info)
         IN  (IF c.check_steps # <<>>
              THEN <<[job_name |-> c.job_name,
                      confidence |-> c.confidence,
                      gated |-> c.gated,
                      steps |-> c.check_steps,
                      if_check |-> IF CondTruthy(c.if_check) THEN c.if_check
                                   ELSE EmptyStr]>>
              ELSE <<>>) \o Candidates(Tail(info))

\* checkout_risk as lines 286-308 build it from the triggers and the outcome
\* of analyze_checkouts.
CheckoutRisk(vulnerable_triggers, checkout_info, candidates) ==
    [ran |-> TRUE,
     exc |-> checkout_info.exc,
     candidates |-> IF checkout_info.exc = "" THEN candidates ELSE <<>>,
     triggers |-> IF checkout_info.exc = "" /\ candidates # <<>>
                  THEN vulnerable_triggers ELSE <<>>,
     touched |-> checkout_info.touched,
     callees |-> checkout_info.callees]

checkout_risk(vulnerable_triggers, checkout_info) ==
    CheckoutRisk(vulnerable_triggers, checkout_info, Candidates(checkout_info.out))

\* check_pwn_request without the early return of lines 282-284: C7 must tell
\* it from check_pwn_request.
check_pwn_request_unguarded(bypass) ==
    checkout_risk(get_vulnerable_triggers(""), analyze_checkouts)

\* The outcome of the early return of lines 282-284.
NotAnalysed ==
    [ran |-> FALSE, exc |-> "", candidates |-> <<>>, triggers |-> <<>>,
     touched |-> {}, callees |-> <<>>]

\* WorkflowParser.check_pwn_request(bypass), lines 272-308.  ran tells whether
\* analyze_checkouts was called.
PwnRequest(vulnerable_triggers, bypass) ==
    IF vulnerable_triggers = <<>> /\ ~bypass THEN NotAnalysed
    ELSE checkout_risk(vulnerable_triggers, analyze_checkouts)

check_pwn_request(bypass) == PwnRequest(get_vulnerable_triggers(""), bypass)

-----------------------------------------------------------------------------
(* Injection check.                                                        *)

\* A Python dict as a function from its keys; d[k] = v.
EmptyDict == [k \in {} |-> TRUE]
Put(d, k, v) == [x \in (DOMAIN d) \cup {k} |-> IF x = k THEN v ELSE d[x]]

\* check_token(token, container), lines 356-364, for a container that has an
\* 'env' key: "keep", "drop", or the TypeError of `'${{' in value' on a
\* value that is no container.
check_token(token, env) ==
    IF Len(token) >= 2 /\ token[1] = "env" /\ token[2] \in env.names
    THEN LET value == env.value
         IN  IF ~value.truthy THEN "drop"
             ELSE IF value.type = "int" THEN "drop"
             ELSE IF value.type = "bool" THEN "TypeError"
             ELSE IF IsSubstr(Chars("${{"), Chars(value.text)) THEN "keep"
             ELSE "drop"
    ELSE "keep"

\* The list comprehension of line 371.
RECURSIVE FilterTokens(_, _)
FilterTokens(tokens, env) ==
    IF tokens = <<>> THEN [exc |-> "", tokens |-> <<>>]
    ELSE LET verdict == check_token(Head(tokens), env)
         IN  IF verdict = "TypeError" THEN [exc |-> "TypeError", tokens |-> <<>>]
             ELSE LET rest == FilterTokens(Tail(tokens), env)
                  IN  [exc |-> rest.exc,
                       tokens |-> IF rest.exc # "" THEN <<>>
                                  ELSE IF verdict = "keep"
                                  THEN <<Head(tokens)>> \o rest.tokens
                                  ELSE rest.tokens]

\* The loop over env_sources, lines 368-371.
RECURSIVE FilterScopes(_, _)
FilterScopes(tokens, env_sources) ==
    IF env_sources = <<>> THEN [exc |-> "", tokens |-> tokens]
    ELSE IF Head(env_sources).present /\ tokens # <<>>
    THEN LET f == FilterTokens(tokens, Head(env_sources))
         IN  IF f.exc # "" THEN f ELSE FilterScopes(f.tokens, Tail(env_sources))
    ELSE FilterScopes(tokens, Tail(env_sources))

\* The tokens of a script step that survive the three scopes.
TaintedTokens(j, step) ==
    FilterScopes(step.tokens, <<wf_env, jobs[j].env, step.env>>)

\* The entry a step adds to its job's dict, lines 381-385.
StepEntry(step, tokens) ==
    [kind |-> "step",
     variables |-> Range(tokens),
     has_if_checks |-> CondTruthy(StepEvaluateIf(step)),
     if_checks |-> StepEvaluateIf(step)]

\* A scan that passes over gate steps.
GateNeverHalts(step) == FALSE

\* `if step.is_gate: break', lines 345-347: no TOCTOU possible for injection.
GateHalts(step) == step.is_gate

\* The scan of the steps of job j from step i on, lines 344-385.
RECURSIVE ScanInjection(_, _, _)
ScanInjection(j, i, st) ==
    IF i > Len(jobs[j].steps) \/ st.stop THEN st
    ELSE
    LET step == jobs[j].steps[i]
        name == jobs[j].job_name
    IN  IF GateHalts(step) THEN [st EXCEPT !.stop = TRUE]
        ELSE IF ~step.is_script THEN ScanInjection(j, i + 1, st)
        ELSE
        LET f == TaintedTokens(j, step)
        IN  IF f.exc # "" THEN [st EXCEPT !.exc = f.exc, !.stop = TRUE]
            ELSE IF f.tokens = <<>> THEN ScanInjection(j, i + 1, st)
            ELSE
            LET has_needs == NeedsTruthy(jobs[j].needs)
                bt == IF has_needs THEN backtrack_gate(jobs[j].needs)
                      ELSE BtResult("False", {})
                seen == st.touched \cup bt.touched
            IN  IF bt.res = "RecursionError"
                THEN [st EXCEPT !.exc = "RecursionError", !.stop = TRUE,
                                !.touched = seen]
                ELSE IF bt.res = "True"
                THEN [st EXCEPT !.stop = TRUE, !.touched = seen]
                ELSE
                LET fresh == name \notin DOMAIN st.risk
                    entry == IF fresh
                             THEN Put(EmptyDict, "if_check",
                                      [kind |-> "if_check", if_check |-> evaluateIf(j)])
                             ELSE st.risk[name]
                IN  ScanInjection(j, i + 1,
                        [st EXCEPT
                            !.touched = IF fresh THEN seen \cup {j} ELSE seen,
                            !.risk = Put(st.risk, name,
                                Put(entry, step.name, StepEntry(step, f.tokens)))])

RECURSIVE InjectionFrom(_, _)
InjectionFrom(j, st) ==
    IF j > Len(jobs) \/ st.exc # "" THEN st
    ELSE InjectionFrom(j + 1, [ScanInjection(j, 1, st) EXCEPT !.stop = FALSE])

\* WorkflowParser.check_injection(bypass), lines 336-389.  risk maps a job
\* name to its dict; has_triggers tells whether the 'triggers' key was set
\* (to `triggers'), which replaces the entry of a job of that name.
check_injection(bypass) ==
    LET vulnerable_triggers == get_vulnerable_triggers("")
    IN  IF vulnerable_triggers = <<>> /\ ~bypass
        THEN [ran |-> FALSE, exc |-> "", risk |-> EmptyDict, has_triggers |-> FALSE,
              triggers |-> <<>>, touched |-> {}]
        ELSE LET st == InjectionFrom(1,
                        [risk |-> EmptyDict, exc |-> "", stop |-> FALSE, touched |-> {}])
                 found == st.exc = "" /\ DOMAIN st.risk # {}
             IN  [ran |-> TRUE,
                  exc |-> st.exc,
                  risk |-> IF st.exc # "" THEN EmptyDict
                           ELSE [k \in (DOMAIN st.risk) \ {"triggers"} |-> st.risk[k]],
                  has_triggers |-> found,
                  triggers |-> IF found THEN vulnerable_triggers ELSE <<>>,
                  touched |-> st.touched]

-----------------------------------------------------------------------------
(* Self-hosted runner detection.                                           *)

MaxMatrixLabels == 3    \* labels a matrix key may grow to

\* The runner labels of the model; MatrixOs is the matrix placeholder.
MatrixOs == "${{ matrix.os }}"
PlainLabels ==
    {"ubuntu-latest", "self-hosted", "Linux", "X64", "ubuntu-22.04-4core-16gb",
     "self-hosted-builder"}
RunnerLabels == PlainLabels \cup {MatrixOs}

\* ConfigurationManager().WORKFLOW_PARSING['GITHUB_HOSTED_LABELS']
GITHUB_HOSTED_LABELS == {"ubuntu-latest", "macos-latest", "windows-latest"}

\* The labels LARGER_RUNNER_REGEX_LIST.match accepts (line 44).
LARGER_RUNNER_REGEX_LIST == {"ubuntu-22.04-4core-16gb"}

\* 'self-hosted' in label, evaluated once per label.
SelfHostedMarked ==
    {label \in RunnerLabels : IsSubstr(Chars("self-hosted"), Chars(label))}

\* MATRIX_KEY_EXTRACTION_REGEX.search(label).group(1) (line 45); "" when the
\* search finds nothing.
MatrixKey(label) == IF label = MatrixOs THEN "os" ELSE ""

\* label.split('.')[0], on the characters of the label.
BeforeFirstDot(cs) ==
    IF \E i \in 1..Len(cs) : cs[i] = "."
    THEN SubSeq(cs, 1, (CHOOSE i \in 1..Len(cs) :
                            cs[i] = "." /\ \A k \in 1..(i - 1) : cs[k] # ".") - 1)
    ELSE cs

\* A `runs-on' value: absent, one label, or a list of labels.
NoRunsOn == [kind |-> "absent", label |-> "", labels |-> <<>>]
RunsOnStr(label) == [kind |-> "str", label |-> label, labels |-> <<>>]
RunsOnList(labels) == [kind |-> "list", label |-> "", labels |-> labels]

\* job_data['strategy']['matrix']: absent, or a mapping that may hold the key
\* `os' (a list of labels) and may hold `include' (a list of mappings, each
\* with or without the key `os').
NoMatrix ==
    [present |-> FALSE, has_key |-> FALSE, values |-> <<>>,
     has_include |-> FALSE, include |-> <<>>]
Matrix(has_key, values, has_include, include) ==
    [present |-> TRUE, has_key |-> has_key, values |-> values,
     has_include |-> has_include, include |-> include]
Inclusion(has_key, label) == [has_key |-> has_key, label |-> label]

\* The labels Job.LARGER_RUNNER_REGEX_LIST.match accepts (job.py, line 26).
Job_LARGER_RUNNER_REGEX_LIST == {"ubuntu-22.04-4core-16gb"}

\* Job._is_single_runner_self_hosted(runner), job.py lines 140-142.
is_single_runner_self_hosted(runner) == runner \notin Job_LARGER_RUNNER_REGEX_LIST

\* Job._is_self_hosted(runner), job.py lines 134-138.
Job_is_self_hosted(runs_on) ==
    IF runs_on.kind = "list"
    THEN \E i \in 1..Len(runs_on.labels) : is_single_runner_self_hosted(runs_on.labels[i])
    ELSE is_single_runner_self_hosted(runs_on.label)

\* Job.self_hosted_runner, as Job.__init__ sets it, job.py lines 46, 76-77.
self_hosted_runner(runs_on) ==
    IF runs_on.kind = "absent" THEN FALSE ELSE Job_is_self_hosted(runs_on)

\* A job that declares its runner.
RunnerJob(job_name, runs_on, matrix) ==
    LET job == Job(job_name, NoGuard, NoNeeds, <<>>, NoEnv, "")
    IN  [f \in (DOMAIN job) \cup {"runs_on", "matrix", "self_hosted_runner"} |->
            CASE f = "runs_on" -> runs_on
              [] f = "matrix" -> matrix
              [] f = "self_hosted_runner" -> self_hosted_runner(runs_on)
              [] OTHER -> job[f]]

\* Job.isSelfHosted(), job.py lines 130-132.
isSelfHosted(job) == job.self_hosted_runner

\* [inclusion[matrix_key] for inclusion in matrix['include'] if matrix_key in
\* inclusion], line 460.
RECURSIVE Inclusions(_)
Inclusions(include) ==
    IF include = <<>> THEN <<>>
    ELSE (IF Head(include).has_key THEN <<Head(include).label>> ELSE <<>>)
            \o Inclusions(Tail(include))

NotHostedAllowListOnly(label) == label \notin GITHUB_HOSTED_LABELS

\* The tail of _check_single_runner, line 439.
NotHosted(label) ==
    label \notin GITHUB_HOSTED_LABELS /\ label \notin LARGER_RUNNER_REGEX_LIST

\* WorkflowParser._check_single_runner(label), lines 435-439, for a label that
\* is no matrix placeholder.
check_plain_runner(label) == label \in SelfHostedMarked \/ NotHosted(label)

\* WorkflowParser._check_matrix_runner(label), lines 450-461, on the jobs js:
\* the result, and js after os_list.extend() (the list of the matrix itself
\* when the matrix holds the key).  The labels of a matrix are no placeholders.
check_matrix_runner(js, label) ==
    LET named == {j \in 1..Len(js) :
                        Chars(js[j].job_name) = BeforeFirstDot(Chars(label))}
    IN  IF named = {} THEN [res |-> FALSE, js |-> js]
        ELSE LET j == CHOOSE k \in named : \A other \in named : k <= other
                 matrix == js[j].matrix
             IN  IF ~matrix.present THEN [res |-> FALSE, js |-> js]
                 ELSE LET found == IF matrix.has_key THEN matrix.values ELSE <<>>
                          os_list == IF matrix.has_include
                                     THEN found \o Inclusions(matrix.include)
                                     ELSE found
                      IN  [res |-> \E i \in 1..Len(os_list) :
                                        check_plain_runner(os_list[i]),
                           js |-> IF matrix.has_key
                                  THEN [js EXCEPT ![j].matrix.values = os_list]
                                  ELSE js]

\* WorkflowParser._check_single_runner(label), lines 435-439.
check_single_runner(js, label) ==
    IF label \in SelfHostedMarked THEN [res |-> TRUE, js |-> js]
    ELSE IF MatrixKey(label) # "" THEN check_matrix_runner(js, label)
    ELSE [res |-> NotHosted(label), js |-> js]

\* any(self._check_single_runner(label) for label in runs_on), line 423.
RECURSIVE any_runner(_, _)
any_runner(js, labels) ==
    IF labels = <<>> THEN [res |-> FALSE, js |-> js]
    ELSE LET r == check_single_runner(js, Head(labels))
         IN  IF r.res THEN r ELSE any_runner(r.js, Tail(labels))

\* WorkflowParser._is_self_hosted(runs_on), lines 420-424.
is_self_hosted(js, runs_on) ==
    CASE runs_on.kind = "str" -> check_single_runner(js, runs_on.label)
      [] runs_on.kind = "list" -> any_runner(js, runs_on.labels)
      [] OTHER -> [res |-> FALSE, js |-> js]

\* The loop of self_hosted(), lines 403-407, from job j on.
RECURSIVE SelfHostedFrom(_, _, _)
SelfHostedFrom(j, js, sh_jobs) ==
    IF j > Len(js) THEN [sh_jobs |-> sh_jobs, js |-> js]
    ELSE IF js[j].runs_on.kind = "absent" THEN SelfHostedFrom(j + 1, js, sh_jobs)
    ELSE LET r == is_self_hosted(js, js[j].runs_on)
         IN  SelfHostedFrom(j + 1, r.js,
                            IF r.res
                            THEN Append(sh_jobs, [jobname |-> js[j].job_name,
                                                  job_details |-> j])
                            ELSE sh_jobs)

\* WorkflowParser.self_hosted(), lines 391-409: the reported
\* (jobname, job_details) pairs, and the jobs after the call.
self_hosted == SelfHostedFrom(1, jobs, <<>>)

-----------------------------------------------------------------------------
-----------------------------------------------------------------------------
(* Environment rule check.                                                 *)

\* The `environment' of a job declaration: absent, a name, a list of names,
\* or a mapping with the keys `name' and `url'.
NoEnvironment == [kind |-> "absent", items |-> <<>>]
EnvironmentName(name) == [kind |-> "str", text |-> name, keys |-> {}]
EnvironmentMapping(name) == [kind |-> "dict", text |-> name, keys |-> {"name", "url"}]
EnvironmentList(names) ==
    [kind |-> "list", items |-> [i \in DOMAIN names |-> EnvironmentName(names[i])]]

\* Job.deployments, as Job.__init__ fills it, lines 50-54.
Deployments(environment) ==
    IF environment.kind = "absent" THEN <<>>
    ELSE IF environment.kind = "list" THEN environment.items
    ELSE <<environment>>

\* A Job object with its deployments.
DeployJob(job_name, environment) ==
    LET job == Job(job_name, NoGuard, NoNeeds, <<>>, NoEnv, "")
    IN  [f \in (DOMAIN job) \cup {"deployments"} |->
            IF f = "deployments" THEN Deployments(environment) ELSE job[f]]

\* `rule in deploy_rule', line 322: a substring test on a name, a key test
\* on a mapping.
RuleIn(rule, deploy_rule) ==
    IF deploy_rule.kind = "str"
    THEN IsSubstr(Chars(rule), Chars(deploy_rule.text))
    ELSE rule \in deploy_rule.keys

\* WorkflowParser.check_rules(gate_rules), lines 319-324.
check_rules(gate_rules) ==
    ~\E r \in 1..Len(gate_rules), j \in JobIdx :
        \E d \in 1..Len(jobs[j].deployments) :
            RuleIn(gate_rules[r], jobs[j].deployments[d])

-----------------------------------------------------------------------------
(* GraphQL query construction.                                             *)

\* The repositories per query of get_workflow_ymls (line 181) and per query
\* of get_workflow_ymls_from_list (line 144).
PageSize == 100
ChunkSize == 50

\* repos[lo:hi], a Python slice with 0 <= lo.
Slice(s, lo, hi) ==
    LET top == IF hi < Len(s) THEN hi ELSE Len(s)
    IN  IF lo >= top THEN <<>> ELSE SubSeq(s, lo + 1, top)

\* A Python list, built from the function of its items.
AsList(f) == SubSeq(f, 1, Len(f))

\* range(0, n, step) as the sequence of its values.
RangeBy(n, step) == [k \in 1..((n + step - 1) \div step) |-> (k - 1) * step]

\* GqlQueries.get_workflow_ymls_from_list(repos), lines 142-163: one query
\* per chunk, which names the repositories of the chunk as repo1, repo2, ...
get_workflow_ymls_from_list(repos) ==
    LET starts == RangeBy(Len(repos), ChunkSize)
    IN  AsList([k \in DOMAIN starts |->
            [repos |-> Slice(repos, starts[k], starts[k] + ChunkSize)]])

\* GqlQueries.get_workflow_ymls(repos), lines 174-193, for Repository objects
\* with a node id and a push permission; i counts from 0 as in the code.
get_workflow_ymls(repos) ==
    IF Len(repos) = 0 THEN <<>>
    ELSE AsList([k \in 1..((Len(repos) \div PageSize) + 1) |->
            LET i == k - 1
                top_len == IF Len(repos) < PageSize + i * PageSize
                           THEN Len(repos) ELSE PageSize + i * PageSize
                page == Slice(repos, i * PageSize, top_len)
            IN  [can_push |-> IF i * PageSize < Len(repos)
                              THEN \E r \in 1..Len(page) : page[r].can_push
                              ELSE FALSE,
                 node_ids |-> AsList([r \in DOMAIN page |-> page[r].node_id])]])

-----------------------------------------------------------------------------
(* Repository enumeration.                                                 *)

\* range(3), line 309.
MaxAttempts == 3

\* The loop stays on a batch whatever the status.
BreaksNever(status_code) == FALSE

\* `if result.status_code == 200: ... break', lines 311-313.
BreaksOn(status_code) == status_code = "200"

\* The attempts on one batch from `attempt' on, lines 308-325.  answers[k] is
\* what the k-th call_post of the batch meets: a status code, or "raised"
\* when the call raises.  posts are the answers met, fed counts the calls of
\* construct_workflow_cache.
RECURSIVE PostBatch(_, _, _)
PostBatch(answers, attempt, st) ==
    IF attempt > MaxAttempts THEN st
    ELSE LET status_code == answers[attempt]
             posted == [st EXCEPT !.posts = Append(@, status_code)]
         IN  IF status_code = "raised" THEN [posted EXCEPT !.raised = TRUE]
             ELSE IF status_code = "200"
             THEN LET cached == [posted EXCEPT !.fed = @ + 1]
                  IN  IF BreaksOn(status_code) THEN cached
                      ELSE PostBatch(answers, attempt + 1, cached)
             ELSE PostBatch(answers, attempt + 1, posted)

\* The loop over the queries, lines 305-325: per batch, the answers met and
\* the number of times the cache was fed from it.
PostQueries(queries, answers) ==
    AsList([i \in DOMAIN queries |->
                PostBatch(answers[i], 1, [posts |-> <<>>, fed |-> 0, raised |-> FALSE])])

\* The loop over repo_names, lines 327-334: enumerate_repo_only is called for
\* every name in turn until a KeyboardInterrupt arrives in call interrupt_at
\* (0: never); the repositories in `unavailable' yield no object.
EnumerateNames(repo_names, interrupt_at, unavailable) ==
    LET called == IF interrupt_at = 0 THEN repo_names
                  ELSE SubSeq(repo_names, 1, interrupt_at - 1)
    IN  [enumerated |-> called,
         repo_wrappers |-> SelectSeq(called, LAMBDA r : r \notin unavailable),
         interrupted |-> interrupt_at # 0]

\* Enumerator.enumerate_repos(repo_names), lines 284-336.
enumerate_repos(e, user, repo_names, answers, interrupt_at, unavailable) ==
    LET s == setup_user_info(e, user)
        none == [e |-> s.e, queries |-> <<>>, posts |-> <<>>, cached |-> <<>>,
                 enumerated |-> <<>>, repo_wrappers |-> <<>>, interrupted |-> FALSE]
    IN  IF ~s.ok THEN none @@ [returns |-> "False"]
        ELSE IF Len(repo_names) = 0 THEN none @@ [returns |-> "None"]
        ELSE LET queries == get_workflow_ymls_from_list(repo_names)
                 posted == PostQueries(queries, answers)
                 repos == EnumerateNames(repo_names, interrupt_at, unavailable)
             IN  [e |-> s.e,
                  returns |-> "list",
                  queries |-> queries,
                  posts |-> AsList([i \in DOMAIN posted |-> posted[i].posts]),
                  cached |-> AsList([i \in DOMAIN posted |-> posted[i].fed]),
                  enumerated |-> repos.enumerated,
                  repo_wrappers |-> repos.repo_wrappers,
                  interrupted |-> repos.interrupted]

(* The calls.                                                              *)

\* ret: the call made (op and its arguments), the exception it raised ("" for
\* none) and the value it returned, in the field of the value's type.  For a
\* call on a Job, parsed tells whether the call ran ExpressionParser; for
\* output(), caught names the call whose exception output() caught.  For a
\* call on the Enumerator, returns is "False" or "list", queried tells whether
\* the call asked for the organizations, orgs lists the organizations of the
\* value returned, and enumerated those passed to enumerate_organization().
NoRet ==
    [op |-> "init", trigger |-> "", needs |-> NoNeeds, job |-> 0, bypass |-> FALSE,
     exc |-> "", bool |-> FALSE, triggers |-> <<>>, cond |-> RawCondition(NoGuard),
     checkouts |-> <<>>, candidates |-> <<>>, risk |-> EmptyDict, ran |-> FALSE,
     sh_jobs |-> <<>>, parsed |-> FALSE, dirpath |-> <<>>, fault |-> "", writes |-> <<>>,
     caught |-> "", has_triggers |-> FALSE, returns |-> "", queried |-> FALSE,
     enumerated |-> <<>>, orgs |-> <<>>, rules |-> <<>>, repos |-> <<>>,
     queries |-> <<>>, posts |-> <<>>, cached |-> <<>>, interrupted |-> FALSE,
     repo_wrappers |-> <<>>]

\* The guard state after a call that evaluated the guards of `touched'.
Memoise(touched) ==
    /\ if_condition' = IfConditionAfter(touched)
    /\ evaluated' = EvaluatedAfter(touched)
    /\ parser_runs' = ParserRunsAfter(touched)

Document == <<parsed_on, jobs, wf_env>>

\* What the analyses of the parser neither read nor write.
Outside == <<workflow_wrapper, parser, disk, enumerator>>

\* The arguments the model passes to backtrack_gate: a job name, declared or
\* not, or the list of the declared names.
JobNames == {jobs[j].job_name : j \in JobIdx}
NeedsArgs ==
    {NeedsStr(n) : n \in JobNames \cup {"ghost"}}
        \cup {NeedsList([j \in JobIdx |-> jobs[j].job_name])}

do_get_vulnerable_triggers(alternate) ==
    /\ ret' = [NoRet EXCEPT !.op = "get_vulnerable_triggers", !.trigger = alternate,
                            !.triggers = get_vulnerable_triggers(alternate)]
    /\ UNCHANGED <<Document, Outside, if_condition, evaluated, parser_runs, callees>>

do_has_trigger(trigger) ==
    /\ ret' = [NoRet EXCEPT !.op = "has_trigger", !.trigger = trigger,
                            !.bool = has_trigger(trigger)]
    /\ UNCHANGED <<Document, Outside, if_condition, evaluated, parser_runs, callees>>

do_evaluateIf(j) ==
    /\ ret' = [NoRet EXCEPT !.op = "evaluateIf", !.job = j, !.cond = evaluateIf(j),
                            !.exc = evaluateIf_exc(j), !.parsed = NeedsEvaluation(j)]
    /\ Memoise({j})
    /\ UNCHANGED <<Document, Outside, callees>>

do_gated(j) ==
    /\ ret' = [NoRet EXCEPT !.op = "gated", !.job = j, !.bool = gated(j),
                            !.parsed = (j \in GatedTouches(j) /\ NeedsEvaluation(j))]
    /\ Memoise(GatedTouches(j))
    /\ UNCHANGED <<Document, Outside, callees>>

do_backtrack_gate(needs_name) ==
    \E r \in {backtrack_gate(needs_name)} :
        /\ ret' = [NoRet EXCEPT !.op = "backtrack_gate", !.needs = needs_name,
                                !.exc = IF r.res = "RecursionError" THEN r.res ELSE "",
                                !.bool = r.res = "True"]
        /\ Memoise(r.touched)
        /\ UNCHANGED <<Document, Outside, callees>>

do_analyze_checkouts ==
    \E r \in {analyze_checkouts} :
        /\ Len(callees) + Len(r.callees) <= MaxCallees
        /\ ret' = [NoRet EXCEPT !.op = "analyze_checkouts", !.exc = r.exc,
                                !.checkouts = IF r.exc = "" THEN r.out ELSE <<>>,
                                !.ran = TRUE]
        /\ Memoise(r.touched)
        /\ callees' = callees \o r.callees
        /\ UNCHANGED <<Document, Outside>>

do_check_pwn_request(bypass) ==
    \E r \in {check_pwn_request(bypass)} :
        /\ Len(callees) + Len(r.callees) <= MaxCallees
        /\ ret' = [NoRet EXCEPT !.op = "check_pwn_request", !.bypass = bypass,
                                !.exc = r.exc, !.candidates = r.candidates,
                                !.triggers = r.triggers, !.ran = r.ran]
        /\ Memoise(r.touched)
        /\ callees' = callees \o r.callees
        /\ UNCHANGED <<Document, Outside>>

do_check_injection(bypass) ==
    \E r \in {check_injection(bypass)} :
        /\ ret' = [NoRet EXCEPT !.op = "check_injection", !.bypass = bypass,
                                !.exc = r.exc, !.risk = r.risk,
                                !.has_triggers = r.has_triggers,
                                !.triggers = r.triggers, !.ran = r.ran]
        /\ Memoise(r.touched)
        /\ UNCHANGED <<Document, Outside, callees>>

\* self_hosted() extends the lists of the matrix it resolves; the model
\* follows the call while they stay within MaxMatrixLabels.
do_self_hosted ==
    \E r \in {self_hosted} :
        /\ \A j \in 1..Len(r.js) : Len(r.js[j].matrix.values) <= MaxMatrixLabels
        /\ ret' = [NoRet EXCEPT !.op = "self_hosted", !.sh_jobs = r.sh_jobs]
        /\ jobs' = r.js
        /\ UNCHANGED <<parsed_on, wf_env, if_condition, evaluated, parser_runs, callees, Outside>>

\* output(dirpath), with the fault the environment injects.
do_output(dirpath, fault) ==
    \E r \in {output(parser, disk, dirpath, fault)} :
        /\ parser.constructed
        /\ ret' = [NoRet EXCEPT !.op = "output", !.dirpath = dirpath, !.fault = fault,
                                !.bool = r.bool, !.writes = r.writes,
                                !.caught = r.caught]
        /\ disk' = r.disk
        /\ UNCHANGED <<Document, if_condition, evaluated, parser_runs, callees,
                       workflow_wrapper, parser, enumerator>>

\* validate_only() and self_enumeration(), with the answers the Api would
\* give to check_user() and check_organizations().
do_validate_only(user, orgs) ==
    \E r \in {validate_only(enumerator, user, orgs)} :
        /\ r.e.check_user <= MaxApiCalls /\ r.e.check_organizations <= MaxApiCalls
        /\ ret' = [NoRet EXCEPT !.op = "validate_only", !.returns = r.returns,
                                !.queried = r.queried, !.orgs = r.orgs,
                                !.enumerated = r.enumerated]
        /\ enumerator' = r.e
        /\ UNCHANGED <<Document, if_condition, evaluated, parser_runs, callees,
                       workflow_wrapper, parser, disk>>

do_self_enumeration(user, orgs) ==
    \E r \in {self_enumeration(enumerator, user, orgs)} :
        /\ r.e.check_user <= MaxApiCalls /\ r.e.check_organizations <= MaxApiCalls
        /\ ret' = [NoRet EXCEPT !.op = "self_enumeration", !.returns = r.returns,
                                !.queried = r.queried, !.orgs = r.orgs,
                                !.enumerated = r.enumerated]
        /\ enumerator' = r.e
        /\ UNCHANGED <<Document, if_condition, evaluated, parser_runs, callees,
                       workflow_wrapper, parser, disk>>

do_check_rules(gate_rules) ==
    /\ ret' = [NoRet EXCEPT !.op = "check_rules", !.rules = gate_rules,
                            !.bool = check_rules(gate_rules)]
    /\ UNCHANGED <<Document, Outside, if_condition, evaluated, parser_runs, callees>>

do_get_workflow_ymls(repos) ==
    /\ ret' = [NoRet EXCEPT !.op = "get_workflow_ymls", !.repos = repos,
                            !.queries = get_workflow_ymls(repos)]
    /\ UNCHANGED <<Document, Outside, if_condition, evaluated, parser_runs, callees>>

do_get_workflow_ymls_from_list(repos) ==
    /\ ret' = [NoRet EXCEPT !.op = "get_workflow_ymls_from_list", !.repos = repos,
                            !.queries = get_workflow_ymls_from_list(repos)]
    /\ UNCHANGED <<Document, Outside, if_condition, evaluated, parser_runs, callees>>

do_enumerate_repos(user, repo_names, answers, interrupt_at, unavailable) ==
    \E r \in {enumerate_repos(enumerator, user, repo_names, answers, interrupt_at,
                              unavailable)} :
        /\ r.e.check_user <= MaxApiCalls
        /\ ret' = [NoRet EXCEPT !.op = "enumerate_repos", !.returns = r.returns,
                                !.repos = repo_names, !.queries = r.queries,
                                !.posts = r.posts, !.cached = r.cached,
                                !.enumerated = r.enumerated,
                                !.repo_wrappers = r.repo_wrappers,
                                !.interrupted = r.interrupted]
        /\ enumerator' = r.e
        /\ UNCHANGED <<Document, if_condition, evaluated, parser_runs, callees,
                       workflow_wrapper, parser, disk>>

TriggerCalls ==
    \/ \E alternate \in {"", "push", "pull_request_target"} :
            do_get_vulnerable_triggers(alternate)
    \/ \E trigger \in TriggerNames : do_has_trigger(trigger)

JobCalls ==
    \/ \E j \in JobIdx : do_evaluateIf(j)
    \/ \E j \in JobIdx : do_gated(j)

GateCalls == \E needs_name \in NeedsArgs : do_backtrack_gate(needs_name)

AnalysisCalls ==
    \/ do_analyze_checkouts
    \/ \E bypass \in BOOLEAN : do_check_pwn_request(bypass)
    \/ \E bypass \in BOOLEAN : do_check_injection(bypass)

RunnerCalls == do_self_hosted

DirPaths == {<<"files">>, <<"out", "workflows">>}

EnumeratorCalls ==
    \/ \E user \in Users, orgs \in OrgLists : do_validate_only(user, orgs)
    \/ \E user \in Users, orgs \in OrgLists : do_self_enumeration(user, orgs)

OutputCalls == \E dirpath \in DirPaths, fault \in Faults : do_output(dirpath, fault)

-----------------------------------------------------------------------------
(* The documents a parser is constructed on.                               *)

\* The state after WorkflowParser.__init__ on the given document.
ParserState(on, js, env) ==
    /\ parsed_on = on
    /\ jobs = js
    /\ wf_env = env
    /\ if_condition = [j \in 1..Len(js) |-> RawCondition(js[j].if_raw)]
    /\ evaluated = [j \in 1..Len(js) |-> FALSE]
    /\ parser_runs = [j \in 1..Len(js) |-> 0]
    /\ callees = <<>>
    /\ ret = NoRet

\* The same, on the wrapper of the unit tests and with nothing else touched.
Constructed(on, js, env) ==
    /\ ParserState(on, js, env)
    /\ workflow_wrapper = TestWrapper
    /\ parser = TestParser
    /\ disk = EmptyDisk
    /\ enumerator = NewEnumerator

\* Every trigger block of at most max entries.
OnBlocks(max) ==
    {OnAbsent}
        \cup {OnScalar(n) : n \in TriggerNames}
        \cup {OnList(l) : l \in SeqUpTo(TriggerNames, max)}
        \cup {OnMapping(m) : m \in {x \in SeqUpTo(MappingEntries, max) :
                                        \A i, k \in 1..Len(x) :
                                            i # k => x[i].name # x[k].name}}

GateStep == Step("Check permission", "gate", "", NoGuard, <<>>, NoEnv)
SinkStep == Step("Install dependencies", "sink", "", NoGuard, <<>>, NoEnv)
PlainStep == Step("Free disk space", "plain", "", NoGuard, <<>>, NoEnv)
CheckoutStep(ref, if_raw) == Step("Checkout", "checkout", ref, if_raw, <<>>, NoEnv)
ScriptStep(name, tokens, env) == Step(name, "script", "", NoGuard, tokens, env)

CommentBody == <<"github", "event", "comment", "body">>
EnvTitle == <<"env", "TITLE">>

\* The trigger blocks of the analysis inputs: harmless, and risky with a
\* filter.
PushOnly == OnMapping(<<[name |-> "push", cond |-> CondDict({"branches"}, TypesList(<<>>))]>>)
IssueComment ==
    OnMapping(<<[name |-> "issue_comment",
                 cond |-> CondDict({"types"}, TypesList(<<"created">>))]>>)
AnalysisOn == {PushOnly, IssueComment}

\* Trigger classification: every trigger block, one job.
TestJob ==
    Job("test", NoGuard, NoNeeds,
        <<CheckoutStep(RefHeadRef, NoGuard), ScriptStep("Execution", <<CommentBody>>, NoEnv)>>,
        NoEnv, "")

InitTriggers == \E on \in OnBlocks(MaxTriggers) : Constructed(on, <<TestJob>>, NoEnv)

\* Gate backtracking: every `needs' graph over at most MaxJobs jobs, cycles
\* and undeclared names included; a job is plain, holds a gate step, or has a
\* guard.
GateJobNames == <<"setup", "build", "deploy", "release">>

GateKinds == {"plain", "gate", "restricted"}

GateNeeds(n) ==
    {NoNeeds, NeedsStr("ghost")}
        \cup {NeedsStr(GateJobNames[i]) : i \in 1..n}
        \cup {NeedsList(<<GateJobNames[p[1]], GateJobNames[p[2]]>>) :
                    p \in {q \in (1..n) \X (1..n) : q[1] < q[2]}}

GateJob(name, kind, needs) ==
    Job(name,
        CASE kind = "restricted" -> RestrictedGuard
          [] kind = "passable" -> PassableGuard
          [] OTHER -> NoGuard,
        needs,
        IF kind = "gate" THEN <<PlainStep, GateStep>> ELSE <<PlainStep>>,
        NoEnv, "")

GateWorkflows ==
    UNION {[1..n -> GateKinds \X GateNeeds(n)] : n \in 1..MaxJobs}

InitGates ==
    \E w \in GateWorkflows :
        Constructed(OnList(<<"pull_request_target">>),
                    [j \in DOMAIN w |-> GateJob(GateJobNames[j], w[j][1], w[j][2])],
                    NoEnv)

\* Checkout analysis: a dependency job followed by the analysed job, whose
\* steps are drawn from the templates.
CheckoutTemplates ==
    {GateStep, SinkStep,
     CheckoutStep(RefHeadSha, NoGuard), CheckoutStep(RefHeadRef, NoGuard),
     CheckoutStep(RefEnvSha, NoGuard), CheckoutStep(RefStepSha, NoGuard),
     ScriptStep("Validate inputs", <<CommentBody>>, NoEnv)}

DependencyJobs ==
    {GateJob("check-permission", kind, needs) :
        kind \in {"plain", "gate"},
        needs \in {NoNeeds, NeedsStr("benchmarks")}}

AnalysedNeeds ==
    {NoNeeds, NeedsStr("check-permission"), NeedsList(<<"check-permission", "benchmarks">>)}

AnalysedJobs(templates, envs) ==
    {Job("benchmarks", if_raw, needs, steps, env, "") :
        if_raw \in {NoGuard, PassableGuard, RestrictedGuard},
        needs \in AnalysedNeeds,
        steps \in SeqUpTo(templates, MaxSteps),
        env \in envs}

Init ==
    \E on \in AnalysisOn, dep \in DependencyJobs,
       job \in AnalysedJobs(CheckoutTemplates, {NoEnv}) :
        Constructed(on, <<dep, job>>, NoEnv)

\* Injection analysis: script steps with tokens and the three env scopes.
EnvBlocks ==
    {NoEnv,
     EnvOf("TITLE", EnvStr("production")),
     EnvOf("TITLE", EnvStr("${{ github.event.pull_request.title }}")),
     EnvOf("TITLE", EnvBool(TRUE))}

InjectionTemplates ==
    {GateStep,
     ScriptStep("Fetch Branch", <<>>, NoEnv),
     ScriptStep("Checkout Branch", <<CommentBody>>, NoEnv),
     ScriptStep("Label", <<EnvTitle>>, NoEnv),
     ScriptStep("Label", <<EnvTitle, CommentBody>>, EnvOf("TITLE", EnvInt(TRUE)))}

InitInjection ==
    \E on \in AnalysisOn, dep \in DependencyJobs, env \in EnvBlocks,
       job \in AnalysedJobs(InjectionTemplates, {NoEnv, EnvOf("OTHER", EnvStr("production"))}) :
        Constructed(on, <<dep, job>>, env)

\* Re-emission: a parser with a plain or nested repository name and a plain
\* or nested workflow name, on a disk that is empty, holds an older copy of
\* the file, or holds a file or a directory in the way.
OutputWrappers ==
    {Workflow(repo_name, RawText, workflow_name, "jobs") :
        repo_name \in RepoNames,
        workflow_name \in {FileName, <<"sub">> \o FileName}}
DiskOf(dirs, files) == [dirs |-> dirs, files |-> files, handles |-> 0]
OneFile(path, content) == [q \in {path} |-> content]
Disks ==
    {EmptyDisk,
     DiskOf(Prefixes(<<"files", "unit_test">>),
            OneFile(<<"files", "unit_test", "main.yml">>, <<StaleText>>)),
     DiskOf({<<"files">>}, OneFile(<<"files", "unit_test">>, <<StaleText>>)),
     DiskOf(Prefixes(<<"files", "unit_test", "main.yml">>), EmptyFiles),
     DiskOf(Prefixes(<<"out", "workflows", "octo-org", "repo", "sub">>),
            OneFile(<<"out", "workflows", "octo-org", "repo", "sub", "main.yml">>,
                    <<StaleText, StaleText>>))}
InitOutput ==
    \E w \in OutputWrappers, d \in Disks :
        /\ ParserState(IssueComment, <<TestJob>>, NoEnv)
        /\ workflow_wrapper = w
        /\ parser = WorkflowParser_init(w).parser
        /\ disk = d
        /\ enumerator = NewEnumerator

\* Guard evaluation: up to MaxJobs jobs without dependencies; a job has any
\* of the guards, and holds a gate step or a checkout and a script step.
GuardedSteps ==
    {<<GateStep>>,
     <<CheckoutStep(RefHeadRef, NoGuard),
       ScriptStep("Checkout Branch", <<CommentBody>>, NoEnv)>>}
GuardedWorkflows ==
    UNION {[1..n -> (GuardTexts \cup {TruncatedGuard}) \X GuardedSteps] :
                n \in 1..MaxJobs}
InitGuards ==
    \E w \in GuardedWorkflows :
        Constructed(IssueComment,
                    [j \in DOMAIN w |->
                        Job(GateJobNames[j], w[j][1], NoNeeds, w[j][2], NoEnv, "")],
                    NoEnv)

\* Runner detection: up to MaxJobs jobs, each with one of the declarations
\* below: a runs-on value without a matrix, or the placeholder or a hosted
\* label with a matrix.
RunsOnValues ==
    {NoRunsOn}
        \cup {RunsOnStr(label) : label \in RunnerLabels}
        \cup {RunsOnList(<<"self-hosted", "Linux", "X64">>),
              RunsOnList(<<"ubuntu-latest", "ubuntu-22.04-4core-16gb">>),
              RunsOnList(<<"ubuntu-latest", "Linux">>),
              RunsOnList(<<MatrixOs, "ubuntu-latest">>)}
Matrices ==
    {Matrix(TRUE, <<"ubuntu-latest", "self-hosted-builder">>, FALSE, <<>>),
     Matrix(TRUE, <<"ubuntu-latest", "ubuntu-22.04-4core-16gb">>, TRUE,
            <<Inclusion(FALSE, ""), Inclusion(TRUE, "Linux")>>),
     Matrix(FALSE, <<>>, TRUE, <<Inclusion(TRUE, "ubuntu-latest")>>)}
Declarations ==
    {<<r, NoMatrix>> : r \in RunsOnValues}
        \cup {<<r, m>> : r \in {RunsOnStr(MatrixOs), RunsOnStr("ubuntu-latest")},
                         m \in Matrices}
RunnerJobNames == {"build", "test", "${{ matrix"}
RunnerJobs(max) ==
    {js \in SeqUpTo({RunnerJob(n, d[1], d[2]) :
                        n \in RunnerJobNames, d \in Declarations}, max) :
        \A i, k \in 1..Len(js) : i # k => js[i].job_name # js[k].job_name}
InitRunners == \E js \in RunnerJobs(MaxJobs) : Constructed(PushOnly, js, NoEnv)

\* Construction: a wrapper whose document does not parse, has no `jobs', has
\* an empty `jobs:', or has the job of the unit tests; no parser yet.
ParsedJobs(w) == IF w.parse = "jobs" THEN <<TestJob>> ELSE <<>>
Wrappers ==
    {Workflow(repo_name, RawText, workflow_name, parse) :
        repo_name \in RepoNames, workflow_name \in {FileName, <<"sub">> \o FileName},
        parse \in Parses}
InitConstruct ==
    \E w \in Wrappers, on \in AnalysisOn :
        /\ ParserState(IF w.parse = "unparseable" THEN OnAbsent ELSE on, <<>>, NoEnv)
        /\ workflow_wrapper = w
        /\ parser = NoParser
        /\ disk = EmptyDisk
        /\ enumerator = NewEnumerator

\* WorkflowParser(workflow_wrapper): the constructor raises, or sets the
\* attributes and the Job objects of the document.
do_init ==
    \E r \in {WorkflowParser_init(workflow_wrapper)},
       js \in {ParsedJobs(workflow_wrapper)} :
        /\ ~parser.constructed
        /\ ret' = [NoRet EXCEPT !.op = "__init__", !.exc = r.exc, !.ran = r.ran]
        /\ parser' = r.parser
        /\ IF r.exc = ""
           THEN /\ jobs' = js
                /\ if_condition' = [j \in 1..Len(js) |-> RawCondition(js[j].if_raw)]
                /\ evaluated' = [j \in 1..Len(js) |-> FALSE]
                /\ parser_runs' = [j \in 1..Len(js) |-> 0]
                /\ callees' = <<>>
           ELSE UNCHANGED <<jobs, if_condition, evaluated, parser_runs, callees>>
        /\ UNCHANGED <<parsed_on, wf_env, workflow_wrapper, disk, enumerator>>

ConstructCalls == do_init

\* The methods called on a parser: there is none to call them on when the
\* constructor raised.
MethodCalls == parser.constructed /\ TriggerCalls

\* Confidence: one job whose checkout and sink steps carry guards of their
\* own; every checkout names the head ref, so every checkout is recorded.
GuardedStepTexts == {NoGuard, PassableGuard, RestrictedGuard}
ConfidenceTemplates ==
    {GateStep}
    \cup {CheckoutStep(RefHeadRef, g) : g \in GuardedStepTexts}
    \cup {Step("Install dependencies", "sink", "", g, <<>>, NoEnv) : g \in GuardedStepTexts}
ConfidenceJobs(max) ==
    {Job("benchmarks", if_raw, NoNeeds, steps, NoEnv, "") :
        if_raw \in GuardedStepTexts \cup {UnparsableGuard},
        steps \in SeqUpTo(ConfidenceTemplates, max)}
InitConfidence ==
    \E job \in ConfidenceJobs(MaxSteps + 1) :
        Constructed(IssueComment, <<job>>, NoEnv)

\* Gate halts: two jobs of gate steps and tainted or filtered script steps,
\* the second of which may need the first.
HaltTemplates ==
    {GateStep,
     ScriptStep("Checkout Branch", <<CommentBody>>, NoEnv),
     ScriptStep("Label", <<EnvTitle>>, NoEnv)}
HaltJobs(name, needs, max) ==
    {Job(name, NoGuard, n, steps, NoEnv, "") :
        n \in needs, steps \in SeqUpTo(HaltTemplates, max)}
InitHalts ==
    \E first \in HaltJobs("setup", {NoNeeds}, MaxSteps),
       second \in HaltJobs("build", {NoNeeds, NeedsStr("setup")}, MaxSteps),
       env \in {NoEnv, EnvOf("TITLE", EnvStr("production"))} :
        Constructed(IssueComment, <<first, second>>, env)

\* Rule check: jobs bound to no environment, to one by name or by mapping,
\* or to a list of them, and rule lists of full and partial names.
MaxRules == 2
RuleNames == {"prod", "production", "staging"}
Environments ==
    {NoEnvironment, EnvironmentName("production"), EnvironmentName("staging"),
     EnvironmentMapping("production"),
     EnvironmentList(<<"staging", "production">>)}
DeployJobs(max) ==
    UNION {[1..n -> Environments] : n \in 1..max}
InitRules ==
    \E es \in DeployJobs(MaxJobs) :
        Constructed(PushOnly, [j \in DOMAIN es |-> DeployJob(GateJobNames[j], es[j])], NoEnv)
RuleCalls == \E gate_rules \in SeqUpTo(RuleNames, MaxRules) : do_check_rules(gate_rules)

\* Repeated analyses: one job that declares a runner, possibly with a
\* matrix, and may call a reusable workflow.
RepeatedJobs ==
    {[f \in (DOMAIN RunnerJob("build", d[1], d[2])) \cup {"deployments"} |->
        CASE f = "deployments" -> Deployments(EnvironmentName("production"))
          [] f = "uses" -> uses
          [] OTHER -> RunnerJob("build", d[1], d[2])[f]] :
        d \in Declarations, uses \in {"", LocalWorkflow, ExternalWorkflow}}
InitRepeated == \E job \in RepeatedJobs : Constructed(IssueComment, <<job>>, NoEnv)

\* Query construction: lists of up to MaxRepos repositories, of which none,
\* the first or the last can be pushed to; a slug is named by its position.
MaxRepos == 201
Repositories(n, pushable) ==
    AsList([i \in 1..n |-> [node_id |-> i,
                            can_push |-> (pushable = "first" /\ i = 1)
                                            \/ (pushable = "last" /\ i = n)]])
RepoSlugs(n) == AsList([i \in 1..n |-> i])
\* The lengths tried: the short lists and those around a multiple of the
\* chunk size.
RepoCounts(max) ==
    {n \in 0..max : n < 10 \/ n % ChunkSize \in {0, 1, 2, 3, ChunkSize - 2, ChunkSize - 1}}
QueryCalls ==
    \/ \E n \in RepoCounts(MaxRepos), pushable \in {"none", "first", "last"} :
            do_get_workflow_ymls(Repositories(n, pushable))
    \/ \E n \in RepoCounts(MaxRepos) : do_get_workflow_ymls_from_list(RepoSlugs(n))

\* Repository enumeration: no name, one name, or enough names for a second
\* batch; per batch, what the three possible posts would be answered.
MaxRepoNames == 51
Answers ==
    {<<"200", "200", "200">>, <<"502", "200", "200">>, <<"502", "502", "200">>,
     <<"502", "502", "502">>, <<"raised", "200", "200">>, <<"502", "raised", "200">>,
     <<"200", "502", "raised">>}
RepoNameCounts == {0, 1, MaxRepoNames}
RepoCalls ==
    \E user \in {NoUser, User({"repo"})}, n \in RepoNameCounts,
       answers \in [1..2 -> Answers], interrupted \in BOOLEAN, unavailable \in {{}, {1}} :
        do_enumerate_repos(user, RepoSlugs(n), answers, IF interrupted THEN n ELSE 0,
                           unavailable)

Next == TriggerCalls \/ JobCalls \/ GateCalls \/ AnalysisCalls \/ RunnerCalls
            \/ OutputCalls \/ ConstructCalls \/ EnumeratorCalls \/ RuleCalls \/ QueryCalls \/ RepoCalls

\* Enumeration: a new Enumerator.
InitEnumerator == Constructed(PushOnly, <<TestJob>>, NoEnv)

Spec == Init /\ [][AnalysisCalls]_vars
SpecTriggers == InitTriggers /\ [][TriggerCalls]_vars
SpecGates == InitGates /\ [][GateCalls]_vars
SpecInjection == InitInjection /\ [][AnalysisCalls]_vars
SpecEnumerator == InitEnumerator /\ [][EnumeratorCalls]_vars
SpecConstruct == InitConstruct /\ [][ConstructCalls \/ MethodCalls]_vars
SpecOutput == InitOutput /\ [][OutputCalls \/ TriggerCalls]_vars
SpecGuards == InitGuards /\ [][JobCalls \/ AnalysisCalls]_vars
SpecConfidence == InitConfidence /\ [][AnalysisCalls]_vars

SpecHalts == InitHalts /\ [][AnalysisCalls]_vars

SpecRules == InitRules /\ [][RuleCalls]_vars

SpecRepeated == InitRepeated /\ [][AnalysisCalls \/ RunnerCalls \/ RuleCalls]_vars

SpecQueries == InitEnumerator /\ [][QueryCalls]_vars

SpecRepos == InitEnumerator /\ [][RepoCalls]_vars

SpecRunners == InitRunners /\ [][RunnerCalls]_vars

-----------------------------------------------------------------------------
(* Vocabulary of the properties, stated on the document and not through    *)
(* the operators above.                                                    *)

\* The entries a declared trigger may be returned as.
EntriesOf(t) == {t, t \o ":labeled"}

\* The job indices a `needs' value names.
NeedsNames(n) == IF n.isList THEN Range(n.items) ELSE {n.name}
Named(n) == {j \in JobIdx : jobs[j].job_name \in NeedsNames(n)}

\* The jobs reachable from the jobs of S along `needs' edges, S included.
RECURSIVE ReachableIn(_, _)
ReachableIn(S, fuel) ==
    LET more == S \cup UNION {Named(jobs[j].needs) : j \in S}
    IN  IF fuel = 0 \/ more = S THEN S ELSE ReachableIn(more, fuel - 1)

Reachable(S) == ReachableIn(S, Len(jobs))

\* No job depends on itself, directly or through other jobs.
Acyclic == \A j \in JobIdx : j \notin Reachable(Named(jobs[j].needs))

\* A job is gated: it contains a gate step, or its guard is one that
\* evaluates to the restricted verdict.
IsGatedJob(j) ==
    \/ \E i \in 1..Len(jobs[j].steps) : jobs[j].steps[i].is_gate
    \/ (jobs[j].if_raw # NoGuard /\ ParseAndEvaluate(jobs[j].if_raw) = "false")

GatedThrough(n) == \E j \in Reachable(Named(n)) : IsGatedJob(j)

\* The workflow declares a trigger of the documented risky set.
RiskyTriggered == Declared(parsed_on) \cap DocumentedRisky # {}

-----------------------------------------------------------------------------
(* C1 .. C4: trigger classification.                                       *)

\* C1: for a trigger block that is a list or a mapping,
\* get_vulnerable_triggers() returns an entry for a trigger name exactly when
\* the block declares it and it is in the documented risky set.
C1_RiskyClassification ==
    (ret.op = "get_vulnerable_triggers" /\ ret.trigger = ""
        /\ parsed_on.shape \in {"list", "mapping"})
    => \A t \in TriggerNames :
            (t \in Declared(parsed_on) /\ t \in DocumentedRisky)
                <=> (Range(ret.triggers) \cap EntriesOf(t) # {})

\* C2: in a mapping trigger block, a documented risky trigger is returned as
\* "<name>:labeled" when its `types' filter is exactly the list ["labeled"],
\* and as its bare name for every other shape of its conditions.
C2_LabeledNarrowing ==
    (ret.op = "get_vulnerable_triggers" /\ ret.trigger = ""
        /\ parsed_on.shape = "mapping")
    => \A i \in 1..Len(parsed_on.mapping) :
            LET e == parsed_on.mapping[i]
                only_labeled ==
                    /\ ~e.cond.isNone
                    /\ "types" \in e.cond.keys
                    /\ e.cond.types = TypesList(<<"labeled">>)
            IN  e.name \in DocumentedRisky
                => Range(ret.triggers) \cap EntriesOf(e.name)
                        = {IF only_labeled THEN e.name \o ":labeled" ELSE e.name}

\* C3: when the trigger block is a single trigger name of the documented risky
\* set, get_vulnerable_triggers() returns a list containing that name.
C3_ScalarTrigger ==
    (ret.op = "get_vulnerable_triggers" /\ ret.trigger = ""
        /\ parsed_on.shape = "scalar" /\ parsed_on.name \in DocumentedRisky)
    => parsed_on.name \in Range(ret.triggers)

\* C4: has_trigger(t) is true exactly when the trigger block declares t,
\* whether or not t is in the risky set.
C4_HasTriggerTestsGivenName ==
    ret.op = "has_trigger"
    => (ret.bool <=> ret.trigger \in Declared(parsed_on))

-----------------------------------------------------------------------------
(* C5, C6: gate backtracking.                                              *)

\* C5: on an acyclic `needs' graph backtrack_gate(names) returns (raises
\* nothing), and returns true exactly when some job reachable from the named
\* jobs along `needs' edges, the named jobs included, is gated.
C5_BacktrackFindsReachableGate ==
    (ret.op = "backtrack_gate" /\ Acyclic)
    => /\ ret.exc = ""
       /\ ret.bool <=> GatedThrough(ret.needs)

\* A gate was found behind a job that is not gated itself, in an acyclic graph.
C5_Witness ==
    /\ ret.op = "backtrack_gate" /\ Acyclic /\ ret.bool
    /\ ~ret.needs.isList
    /\ \A j \in Named(ret.needs) : ~IsGatedJob(j)

\* C6: on a `needs' graph with a cycle, backtrack_gate returns false when no
\* job reachable from the named jobs is gated.
C6_CycleReturnsFalse ==
    (ret.op = "backtrack_gate" /\ ~Acyclic /\ ~GatedThrough(ret.needs))
    => (ret.exc = "" /\ ~ret.bool)

-----------------------------------------------------------------------------
(* C7 .. C10: the pwn-request and injection checks.                        *)

\* The checkout steps of job j, and the refs the properties call pinned: the
\* pull-request head SHA and a SHA taken from an env variable.
CheckoutStepsOf(j) == {i \in 1..Len(jobs[j].steps) : jobs[j].steps[i].is_checkout}
RefReferencesSha(ref) == ref \in {RefHeadSha, RefEnvSha}

\* A token is tainted unless it is env.NAME and some scope declares NAME with
\* a literal value that holds no expression marker.
LiteralWithoutMarker(value) ==
    \/ value.type \in {"int", "bool"}
    \/ (value.type = "str" /\ value.text # "${{ github.event.pull_request.title }}")

IsTainted(token, j, step) ==
    ~\E env \in {wf_env, jobs[j].env, step.env} :
        /\ env.present
        /\ Len(token) >= 2 /\ token[1] = "env" /\ token[2] \in env.names
        /\ LiteralWithoutMarker(env.value)

\* Step i of job j is a script step with a tainted token and no gate step
\* precedes it in the job.
IsOffendingStep(j, i) ==
    LET step == jobs[j].steps[i]
    IN  /\ step.is_script
        /\ \E k \in 1..Len(step.tokens) : IsTainted(step.tokens[k], j, step)
        /\ \A k \in 1..(i - 1) : ~jobs[j].steps[k].is_gate

\* C7: when get_vulnerable_triggers() is empty and bypass is not set,
\* check_pwn_request() and check_injection() return the empty mapping (and
\* raise nothing), whatever the jobs declare.
C7_NoRiskyTriggerNoFinding ==
    (ret.op \in {"check_pwn_request", "check_injection"} /\ ~ret.bypass
        /\ get_vulnerable_triggers("") = <<>>)
    => /\ ret.exc = ""
       /\ ret.candidates = <<>>
       /\ ret.triggers = <<>>
       /\ DOMAIN ret.risk = {}

\* check_pwn_request() returned on a workflow without risky trigger whose
\* analysed job holds an unpinned checkout step.
C7_Witness ==
    /\ ret.op = "check_pwn_request" /\ ~ret.bypass
    /\ get_vulnerable_triggers("") = <<>>
    /\ \E j \in JobIdx : \E i \in CheckoutStepsOf(j) :
            ~RefReferencesSha(jobs[j].steps[i].metadata)

\* C8: in a risky-triggered workflow, a job with an offending step and no
\* gated dependency is a key of the result of check_injection(), whatever
\* its own guard.
C8_GuardNeverSuppresses ==
    (ret.op = "check_injection" /\ RiskyTriggered)
    => \A j \in JobIdx :
            ((\E i \in 1..Len(jobs[j].steps) : IsOffendingStep(j, i))
                /\ ~GatedThrough(jobs[j].needs))
            => jobs[j].job_name \in DOMAIN ret.risk

\* C9: a job whose dependencies are gated and whose checkout steps all
\* reference the pull-request head SHA or an env-sourced SHA has an empty
\* check_steps list in the result of analyze_checkouts() and is no candidate
\* of check_pwn_request().
C9_PinnedCheckoutBehindGate ==
    \A j \in JobIdx :
        (/\ NeedsTruthy(jobs[j].needs) /\ GatedThrough(jobs[j].needs)
         /\ CheckoutStepsOf(j) # {}
         /\ \A i \in CheckoutStepsOf(j) : RefReferencesSha(jobs[j].steps[i].metadata))
        => /\ (ret.op = "analyze_checkouts" /\ ret.exc = "")
                => ret.checkouts[j].check_steps = <<>>
           /\ ret.op = "check_pwn_request"
                => \A c \in 1..Len(ret.candidates) :
                        ret.candidates[c].job_name # jobs[j].job_name

\* analyze_checkouts() returned for a job behind a gated dependency whose
\* only checkout is pinned to an env-sourced SHA.
C9_Witness ==
    /\ ret.op = "analyze_checkouts" /\ ret.exc = ""
    /\ \E j \in JobIdx :
        /\ NeedsTruthy(jobs[j].needs) /\ GatedThrough(jobs[j].needs)
        /\ \E i \in CheckoutStepsOf(j) : jobs[j].steps[i].metadata = RefEnvSha
        /\ \A i \in CheckoutStepsOf(j) : RefReferencesSha(jobs[j].steps[i].metadata)
        /\ ret.checkouts[j].check_steps = <<>>

\* C10: in a risky-triggered workflow, every checkout step whose ref
\* references neither SHA, in a job gated through its dependencies, is an
\* observation of that job among the candidates of check_pwn_request(), and
\* the candidate has gated = true.
C10_GatingDoesNotHideCheckout ==
    (ret.op = "check_pwn_request" /\ RiskyTriggered)
    => \A j \in JobIdx : \A i \in CheckoutStepsOf(j) :
            (/\ NeedsTruthy(jobs[j].needs) /\ GatedThrough(jobs[j].needs)
             /\ ~RefReferencesSha(jobs[j].steps[i].metadata))
            => \E c \in 1..Len(ret.candidates) :
                    /\ ret.candidates[c].job_name = jobs[j].job_name
                    /\ ret.candidates[c].gated
                    /\ \E o \in 1..Len(ret.candidates[c].steps) :
                            ret.candidates[c].steps[o].ref = jobs[j].steps[i].metadata

-----------------------------------------------------------------------------
(* C11, C12: self-hosted runner detection.                                 *)

\* The documented verdict on a label that is no placeholder: it contains the
\* self-hosted marker, or it is neither an allowed hosted label nor a
\* large-runner SKU.
LabelIsSelfHosted(label) ==
    IsSubstr(Chars("self-hosted"), Chars(label))
        \/ (label \notin GITHUB_HOSTED_LABELS /\ label \notin LARGER_RUNNER_REGEX_LIST)
DeclaresPlaceholder(runs_on) ==
    \/ runs_on.kind = "str" /\ runs_on.label = MatrixOs
    \/ runs_on.kind = "list" /\ \E i \in 1..Len(runs_on.labels) : runs_on.labels[i] = MatrixOs
RunsOnIsSelfHosted(runs_on) ==
    \/ runs_on.kind = "str" /\ LabelIsSelfHosted(runs_on.label)
    \/ runs_on.kind = "list"
            /\ \E i \in 1..Len(runs_on.labels) : LabelIsSelfHosted(runs_on.labels[i])
Reported(j) ==
    \E i \in 1..Len(ret.sh_jobs) :
        ret.sh_jobs[i] = [jobname |-> jobs[j].job_name, job_details |-> j]

MatrixCandidates(matrix) ==
    IF ~matrix.present THEN {}
    ELSE (IF matrix.has_key THEN Range(matrix.values) ELSE {})
            \cup (IF matrix.has_include
                  THEN {matrix.include[i].label :
                            i \in {k \in 1..Len(matrix.include) : matrix.include[k].has_key}}
                  ELSE {})

\* C12: a job whose runs-on is the placeholder ${{ matrix.os }} is reported
\* by self_hosted() exactly when a candidate label of its own matrix is
\* neither an allowed hosted label nor a large-runner SKU.
C12_MatrixPlaceholderResolved ==
    ret.op = "self_hosted"
    => \A j \in 1..Len(jobs) :
            jobs[j].runs_on = RunsOnStr(MatrixOs)
            => (Reported(j)
                    <=> \E label \in MatrixCandidates(jobs[j].matrix) :
                            label \notin GITHUB_HOSTED_LABELS
                                /\ label \notin LARGER_RUNNER_REGEX_LIST)
-----------------------------------------------------------------------------
(* C13: guard evaluation is memoised.                                      *)

\* C13: whatever evaluateIf() and gated() calls are made on a job, the
\* expression parser runs on its guard at most once; evaluateIf() returns the
\* stored annotation, and the annotation changes only in the call that runs
\* the parser, after which it stays as it is.
C13_GuardMemoised ==
    /\ [](\A j \in JobIdx : parser_runs[j] <= 1)
    /\ [](ret.op = "evaluateIf" => ret.cond = if_condition[ret.job])
    /\ [][\A j \in JobIdx :
            /\ evaluated[j] => (evaluated'[j] /\ if_condition'[j] = if_condition[j])
            /\ if_condition'[j] # if_condition[j]
                    => (~evaluated[j] /\ parser_runs'[j] = parser_runs[j] + 1)]_vars

\* C13 witness: evaluateIf() on a job whose guard an earlier call evaluated
\* returns the RESTRICTED annotation without running the parser again.
C13_Witness ==
    /\ ret.op = "evaluateIf" /\ ~ret.parsed
    /\ parser_runs[ret.job] = 1
    /\ ret.cond = [tag |-> "RESTRICTED", raw |-> RestrictedGuard, err |-> ""]
-----------------------------------------------------------------------------
(* C14, C15: re-emission of the workflow file.                             *)

\* The file output(dirpath) writes: dirpath/<repo name>/<workflow name>.
OutputPath == ret.dirpath \o workflow_wrapper.repo_name \o workflow_wrapper.workflow_name

\* C14: when nothing fails, output(dirpath) returns True after a single
\* write of the raw text; the file dirpath/<repo name>/<workflow name> then
\* reads back as exactly the raw text of the document, and the raw text of
\* the parser is still that text.
C14_OutputRoundTrip ==
    (ret.op = "output" /\ ret.caught = "")
    => /\ ret.bool
       /\ ret.writes = <<workflow_wrapper.workflow_contents>>
       /\ ReadBack(disk, OutputPath) = <<workflow_wrapper.workflow_contents>>
       /\ parser.raw_yaml = workflow_wrapper.workflow_contents

\* C14 witness: output() returned True for a nested repository name, and the
\* file holds the raw text where an older copy was.
C14_Witness ==
    /\ ret.op = "output" /\ ret.bool
    /\ OutputPath = <<"out", "workflows", "octo-org", "repo", "sub", "main.yml">>
    /\ disk.files[OutputPath] = <<RawText>>

\* C15: when mkdir, open or write fails, output(dirpath) returns False and
\* raises nothing, no file handle stays open, and the call leaves the parser
\* and its jobs as they were.
C15_OutputFailureContained ==
    /\ []((ret.op = "output" /\ ret.caught # "")
            => (~ret.bool /\ ret.exc = "" /\ disk.handles = 0))
    /\ [][ret'.op = "output"
            => UNCHANGED <<Document, if_condition, evaluated, parser_runs, callees,
                           parser>>]_vars

\* C15 witness: the write failed after the file was opened; output()
\* returned False and the handle is closed.
C15_Witness ==
    /\ ret.op = "output" /\ ret.caught = "write" /\ ~ret.bool
    /\ disk.handles = 0
    /\ ReadBack(disk, OutputPath) = <<>>
-----------------------------------------------------------------------------
(* C16: construction fails fast on an invalid document.                    *)

-----------------------------------------------------------------------------
(* C17, C20: a guard that fails to parse or to evaluate.                   *)

\* The guard of the job fails in the parser or in the evaluator.
GuardFails(j) ==
    jobs[j].if_raw # NoGuard /\ ParseAndEvaluate(jobs[j].if_raw) \notin {"true", "false"}

C20_FailedGuardKeepsRawText ==
    (ret.op = "evaluateIf" /\ GuardFails(ret.job))
    => ret.cond = [tag |-> "", raw |-> jobs[ret.job].if_raw, err |-> ""]
-----------------------------------------------------------------------------
(* C18: the result of check_injection().                                   *)

\* The jobs the injection analysis has to report: the analysis runs (a risky
\* trigger, or bypass), the job has an offending step, and its dependencies
\* are not gated.
InjectionReported(bypass) ==
    {jobs[j].job_name :
        j \in {k \in JobIdx :
                /\ RiskyTriggered \/ bypass
                /\ \E i \in 1..Len(jobs[k].steps) : IsOffendingStep(k, i)
                /\ ~GatedThrough(jobs[k].needs)}}

\* C18: check_injection() returns a mapping whose job keys are exactly the
\* jobs to report; it is empty when there is none, and otherwise holds a
\* `triggers' entry with the list get_vulnerable_triggers() returns.
C18_InjectionResultShape ==
    ret.op = "check_injection"
    => /\ ret.exc = ""
       /\ DOMAIN ret.risk = InjectionReported(ret.bypass)
       /\ ret.has_triggers <=> InjectionReported(ret.bypass) # {}
       /\ ret.has_triggers => ret.triggers = get_vulnerable_triggers("")
-----------------------------------------------------------------------------
(* C19: self-enumeration needs a user with the repo scope.                 *)

\* C19: when the user check yields no user, or the scopes of the user lack
\* `repo', self_enumeration() returns False, asks for no organizations and
\* enumerates none; and once the user check has yielded a user, no call on
\* the Enumerator issues it again.
C19_SelfEnumerationNeedsRepoScope ==
    /\ []((ret.op = "self_enumeration"
                /\ (~enumerator.user_perms.present
                        \/ "repo" \notin enumerator.user_perms.scopes))
            => (ret.returns = "False" /\ ~ret.queried /\ ret.enumerated = <<>>))
    /\ [][(ret'.op = "self_enumeration" /\ ret'.returns = "False")
            => enumerator'.check_organizations = enumerator.check_organizations]_vars
    /\ [][enumerator.user_perms.present
            => (enumerator'.check_user = enumerator.check_user
                    /\ enumerator'.user_perms = enumerator.user_perms)]_vars

\* C19 witness: self_enumeration() returned False for a user whose scopes
\* lack `repo', after one user check and with no organizations asked for.
C19_Witness ==
    /\ ret.op = "self_enumeration" /\ ret.returns = "False"
    /\ enumerator.user_perms = User({"public_repo"})
    /\ enumerator.check_user = 1 /\ enumerator.check_organizations = 0

-----------------------------------------------------------------------------
(* C21, C22: confidence and gating in the checkout analysis.               *)

SinkStepsOf(j) == {i \in 1..Len(jobs[j].steps) : jobs[j].steps[i].is_sink}
GateStepsOf(j) == {i \in 1..Len(jobs[j].steps) : jobs[j].steps[i].is_gate}
GuardVerdict(if_raw) == IF if_raw = NoGuard THEN "none" ELSE ParseAndEvaluate(if_raw)

\* The last sink step of job j that follows a checkout step, 0 without one.
LastSinkAfterCheckout(j) ==
    LET after == {s \in SinkStepsOf(j) : \E i \in CheckoutStepsOf(j) : i < s}
    IN  IF after = {} THEN 0 ELSE CHOOSE x \in after : \A y \in after : y <= x

\* Confidence is being raised at step s: the latest checkout step before s
\* whose guard was decided was decided evaluated-true.
ConfidenceRaised(j, s) ==
    LET decided == {c \in CheckoutStepsOf(j) :
                        c < s /\ GuardVerdict(jobs[j].steps[c].if_raw) \in {"true", "false"}}
    IN  /\ decided # {}
        /\ GuardVerdict(jobs[j].steps[CHOOSE c \in decided : \A d \in decided : d <= c].if_raw)
                = "true"

\* The documented confidence of a job all of whose checkout steps are
\* recorded: UNKNOWN without a sink step after a checkout step; else HIGH when
\* the guard of the job is evaluated-true, or the job has no guard and
\* confidence is being raised; else MEDIUM.
DocumentedConfidence(j) ==
    LET s == LastSinkAfterCheckout(j)
    IN  IF s = 0 THEN "UNKNOWN"
        ELSE IF GuardVerdict(jobs[j].if_raw) = "true"
                \/ (GuardVerdict(jobs[j].if_raw) = "none" /\ ConfidenceRaised(j, s))
        THEN "HIGH" ELSE "MEDIUM"

\* The same, with the case of no check at all: a job without a guard whose
\* sink step has no guard or an evaluated-true guard is HIGH as well.
ConfidenceWithUncheckedSink(j) ==
    LET s == LastSinkAfterCheckout(j)
    IN  IF s = 0 THEN "UNKNOWN"
        ELSE IF GuardVerdict(jobs[j].if_raw) = "true"
                \/ (GuardVerdict(jobs[j].if_raw) = "none" /\ ConfidenceRaised(j, s))
                \/ (GuardVerdict(jobs[j].if_raw) = "none"
                    /\ GuardVerdict(jobs[j].steps[s].if_raw) \in {"none", "true"})
        THEN "HIGH" ELSE "MEDIUM"

AllCheckoutsRecorded(j) ==
    \A i \in CheckoutStepsOf(j) : ~RefReferencesSha(jobs[j].steps[i].metadata)

DirectlyGatedAt(j, i) ==
    \/ GuardVerdict(jobs[j].if_raw) = "false"
    \/ \E g \in GateStepsOf(j) : g < i

\* The checkout steps of job j that are safe by direct gating: pinned to a
\* SHA while the job is gated directly.
SafeByDirectGate(j) ==
    {c \in CheckoutStepsOf(j) :
        RefReferencesSha(jobs[j].steps[c].metadata) /\ DirectlyGatedAt(j, c)}

\* C22: direct gating of a job is never undone by its dependencies: in the
\* result of analyze_checkouts() a job with a restricted guard or a gate step
\* is gated, and no checkout step from its first safe one on is recorded,
\* whatever the job needs.
C22_DirectGateKept ==
    (ret.op = "analyze_checkouts" /\ ret.exc = "")
    => \A j \in JobIdx :
        /\ IsGatedJob(j) => ret.checkouts[j].gated
        /\ \A c \in SafeByDirectGate(j) :
                Len(ret.checkouts[j].check_steps)
                    <= Cardinality({i \in CheckoutStepsOf(j) : i < c})

-----------------------------------------------------------------------------
(* C23 .. C27: the injection check and the rule check.                     *)

\* The first gate step of job j, or one past its last step.
FirstGate(j) ==
    IF GateStepsOf(j) = {} THEN Len(jobs[j].steps) + 1
    ELSE CHOOSE g \in GateStepsOf(j) : \A h \in GateStepsOf(j) : g <= h

\* The script steps of job j before its first gate step that hold a tainted
\* token.
TaintedBeforeGate(j) ==
    {i \in 1..(FirstGate(j) - 1) :
        /\ jobs[j].steps[i].is_script
        /\ \E k \in 1..Len(jobs[j].steps[i].tokens) :
                IsTainted(jobs[j].steps[i].tokens[k], j, jobs[j].steps[i])}

\* The dependencies of job j protect it, as backtrack_gate decides.
ProtectedByNeeds(j) ==
    NeedsTruthy(jobs[j].needs) /\ backtrack_gate(jobs[j].needs).res = "True"

\* C23: in the result of check_injection a gate step halts the analysis of
\* its job: a job has an entry only for a tainted script step before its
\* first gate step, no step at or after that gate contributes an entry, the
\* tainted script steps before it are reported, and this holds of every job
\* whatever gates the other jobs hold.
C23_GateHaltsInjection ==
    (ret.op = "check_injection" /\ ret.ran /\ ret.exc = "")
    => \A j \in JobIdx :
        LET name == jobs[j].job_name
            before == {jobs[j].steps[i].name : i \in 1..(FirstGate(j) - 1)}
        IN  /\ name \in DOMAIN ret.risk => TaintedBeforeGate(j) # {}
            /\ \A i \in FirstGate(j)..Len(jobs[j].steps) :
                    (name \in DOMAIN ret.risk /\ jobs[j].steps[i].name \notin before)
                    => jobs[j].steps[i].name \notin DOMAIN ret.risk[name]
            /\ \A i \in TaintedBeforeGate(j) :
                    ~ProtectedByNeeds(j)
                    => /\ name \in DOMAIN ret.risk
                       /\ jobs[j].steps[i].name \in DOMAIN ret.risk[name]

\* C23 witness: a job is reported for a tainted script step that precedes its
\* gate step, after the scan of another job was halted by that job's gate.
C23_Witness ==
    /\ ret.op = "check_injection" /\ ret.ran /\ ret.exc = ""
    /\ \E j, k \in JobIdx :
        /\ k < j
        /\ FirstGate(k) <= Len(jobs[k].steps)
        /\ FirstGate(j) <= Len(jobs[j].steps)
        /\ TaintedBeforeGate(j) # {}
        /\ jobs[j].job_name \in DOMAIN ret.risk
        /\ \E i \in TaintedBeforeGate(j) :
                jobs[j].steps[i].name \in DOMAIN ret.risk[jobs[j].job_name]

\* The tainted tokens of step i of job j.
TaintedOf(j, i) ==
    {jobs[j].steps[i].tokens[k] : k \in {n \in 1..Len(jobs[j].steps[i].tokens) :
        IsTainted(jobs[j].steps[i].tokens[n], j, jobs[j].steps[i])}}

\* Step i of job j is the only step of the job with its name.
UniqueName(j, i) ==
    \A k \in 1..Len(jobs[j].steps) :
        jobs[j].steps[k].name = jobs[j].steps[i].name => k = i

\* C24: check_injection filters the tokens of a script step without raising:
\* the variables reported for a step of a reported job are its tokens that
\* no env scope (workflow, job, step) declares with a literal value free of
\* an expression marker, and a step all of whose tokens are so declared is
\* not reported.
C24_EnvTokensFiltered ==
    (ret.op = "check_injection" /\ ret.ran /\ ret.exc # "RecursionError")
    => /\ ret.exc = ""
       /\ \A j \in JobIdx :
            jobs[j].job_name \in DOMAIN ret.risk
            => \A i \in 1..(FirstGate(j) - 1) :
                (jobs[j].steps[i].is_script /\ UniqueName(j, i))
                => IF TaintedOf(j, i) = {}
                   THEN jobs[j].steps[i].name \notin DOMAIN ret.risk[jobs[j].job_name]
                   ELSE /\ jobs[j].steps[i].name \in DOMAIN ret.risk[jobs[j].job_name]
                        /\ ret.risk[jobs[j].job_name][jobs[j].steps[i].name].variables
                                = TaintedOf(j, i)

\* The name of a deployment binding.
BindingName(deploy_rule) == deploy_rule.text

\* C25: check_rules(rules) returns false exactly when a deployment binding of
\* some job equals a listed rule name, and true otherwise; a rule that is only
\* part of a binding's name does not count.
C25_RulesMatchBindings ==
    ret.op = "check_rules"
    => (ret.bool
        <=> ~\E r \in 1..Len(ret.rules), j \in JobIdx :
                \E d \in 1..Len(jobs[j].deployments) :
                    BindingName(jobs[j].deployments[d]) = ret.rules[r])

\* The analyses of the parser.
Analyses ==
    {"analyze_checkouts", "check_pwn_request", "check_injection", "self_hosted",
     "check_rules"}

\* C26: the analyses are stateless: a call of analyze_checkouts,
\* check_pwn_request, check_injection, self_hosted or check_rules leaves the
\* job list with its matrix lists, the parsed document and the callees list
\* of the parser as they were.
C26_AnalysesStateless ==
    [][ret'.op \in Analyses
        => /\ jobs' = jobs
           /\ parsed_on' = parsed_on
           /\ wf_env' = wf_env
           /\ callees' = callees]_vars

\* C27: in the result of check_injection every offending step of a reported
\* job has an entry of its own that holds its tainted tokens, whatever the
\* names of the other steps and of the jobs; no finding is overwritten.
C27_NoFindingOverwritten ==
    (ret.op = "check_injection" /\ ret.ran /\ ret.exc = "")
    => \A j \in JobIdx :
        (TaintedBeforeGate(j) # {} /\ ~ProtectedByNeeds(j))
        => /\ jobs[j].job_name \in DOMAIN ret.risk
           /\ \A i \in TaintedBeforeGate(j) :
                /\ jobs[j].steps[i].name \in DOMAIN ret.risk[jobs[j].job_name]
                /\ ret.risk[jobs[j].job_name][jobs[j].steps[i].name].kind = "step"
                /\ ret.risk[jobs[j].job_name][jobs[j].steps[i].name].variables
                        = TaintedOf(j, i)

-----------------------------------------------------------------------------
(* C28: the two runner classifications.                                    *)

\* C28: for every job that declares `runs-on', Job.isSelfHosted() is true
\* exactly when self_hosted() reports the job; a job on `ubuntu-latest' is
\* self-hosted for neither.
C28_RunnerClassificationsAgree ==
    ret.op = "self_hosted"
    => \A j \in JobIdx :
        jobs[j].runs_on.kind # "absent"
        => /\ isSelfHosted(jobs[j])
                <=> Reported(j)
           /\ jobs[j].runs_on = RunsOnStr("ubuntu-latest") => ~isSelfHosted(jobs[j])

-----------------------------------------------------------------------------
(* C29, C30: the GraphQL batches.                                          *)

\* The concatenation of the sequences of a sequence.
RECURSIVE Flatten(_)
Flatten(ss) == IF ss = <<>> THEN <<>> ELSE Head(ss) \o Flatten(Tail(ss))

\* C29: in enumerate_repos every batch is posted at least once and at most
\* three times, no post follows one answered 200, the cache is fed from a
\* batch exactly when a post of it was answered 200, a batch whose posts all
\* fail or raise does not keep the later batches from being posted, and,
\* unless the user interrupts, every repository name is enumerated.
C29_BatchesRetriedThenEnumerated ==
    (ret.op = "enumerate_repos" /\ ret.returns = "list")
    => (/\ Len(ret.posts) = Len(ret.queries)
        /\ \A i \in DOMAIN ret.posts :
            /\ Len(ret.posts[i]) \in 1..MaxAttempts
            /\ \A k \in DOMAIN ret.posts[i] :
                    ret.posts[i][k] = "200" => k = Len(ret.posts[i])
            /\ ret.cached[i] = (IF "200" \in Range(ret.posts[i]) THEN 1 ELSE 0)
        /\ (~ret.interrupted => ret.enumerated = ret.repos))

\* C29 witness: the three posts of the first batch fail, the second batch is
\* posted and cached on a retry all the same, and all names are enumerated.
C29_Witness ==
    /\ ret.op = "enumerate_repos" /\ ret.returns = "list"
    /\ Len(ret.posts) = 2
    /\ ret.posts[1] = <<"502", "502", "502">> /\ ret.cached[1] = 0
    /\ ret.posts[2] = <<"502", "200">> /\ ret.cached[2] = 1
    /\ ~ret.interrupted
    /\ Len(ret.enumerated) = MaxRepoNames

\* C30: the node-id lists of the queries of get_workflow_ymls(repos),
\* concatenated, are the node ids of repos in order, and every query holds
\* between 1 and 100 of them; the queries of get_workflow_ymls_from_list name
\* at most 50 repositories each and every repository in exactly one of them.
C30_QueriesPartitionRepos ==
    /\ (ret.op = "get_workflow_ymls")
        => (/\ Flatten([k \in DOMAIN ret.queries |-> ret.queries[k].node_ids])
                = AsList([i \in DOMAIN ret.repos |-> ret.repos[i].node_id])
            /\ \A k \in DOMAIN ret.queries :
                Len(ret.queries[k].node_ids) \in 1..PageSize)
    /\ (ret.op = "get_workflow_ymls_from_list")
        => (/\ Flatten([k \in DOMAIN ret.queries |-> ret.queries[k].repos]) = ret.repos
            /\ \A k \in DOMAIN ret.queries :
                Len(ret.queries[k].repos) \in 1..ChunkSize)
=============================================================================
